---- MODULE Spec2Model ----
(***************************************************************************)
(* Incident lifecycle and knowledge-pack pipeline of the ops data agent:   *)
(* dash/tools/incidents.py and dash/tools/knowledge_pack.py.               *)
(*                                                                         *)
(* The warehouse table incident_markers, the two document stores and the   *)
(* tool calls in flight are the state.  Every tool is split at its         *)
(* database / document-store statements, the only places where another     *)
(* call can interleave.  Text that the code inspects character by          *)
(* character (titles, the comma-separated service list, root causes) is    *)
(* a sequence of one-character strings.                                    *)
(***************************************************************************)
EXTENDS Integers, Sequences, FiniteSets, TLC

\* ------------------------------------------------------------------ bounds

\* Rows the incident_markers sequence hands out before create is refused.
MaxIncidents == 1
\* Last instant of the wall clock.
MaxClock == 1

\* The concurrent callers of the tools.
Procs == {"p1", "p2", "p3"}

\* ------------------------------------------------------------ text helpers

UpperSeq == <<"A","B","C","D","E","F","G","H","I","J","K","L","M",
              "N","O","P","Q","R","S","T","U","V","W","X","Y","Z">>
LowerSeq == <<"a","b","c","d","e","f","g","h","i","j","k","l","m",
              "n","o","p","q","r","s","t","u","v","w","x","y","z">>
Digits == {"0","1","2","3","4","5","6","7","8","9"}
Letters == {UpperSeq[i] : i \in DOMAIN UpperSeq} \cup {LowerSeq[i] : i \in DOMAIN LowerSeq}

\* str.lower() on one character
LowerChar(c) ==
    IF \E i \in DOMAIN UpperSeq : UpperSeq[i] = c
    THEN LowerSeq[CHOOSE i \in DOMAIN UpperSeq : UpperSeq[i] = c]
    ELSE c

\* str.lower()
Lower(s) == [i \in DOMAIN s |-> LowerChar(s[i])]

\* str.isalnum() on one character
IsAlnum(c) == c \in Letters \cup Digits

\* str.isspace() on one character
IsSpace(c) == c \in {" ", "\t", "\n"}

RECURSIVE LStrip(_)
LStrip(s) == IF s # <<>> /\ IsSpace(Head(s)) THEN LStrip(Tail(s)) ELSE s

RECURSIVE RStrip(_)
RStrip(s) ==
    IF s # <<>> /\ IsSpace(s[Len(s)]) THEN RStrip(SubSeq(s, 1, Len(s) - 1)) ELSE s

\* str.strip()
Strip(s) == RStrip(LStrip(s))

\* str.split(","): the pieces between commas, empty pieces kept
RECURSIVE SplitComma(_)
SplitComma(s) ==
    IF \A i \in DOMAIN s : s[i] # ","
    THEN <<s>>
    ELSE LET k == CHOOSE i \in DOMAIN s :
                      s[i] = "," /\ \A j \in 1..(i - 1) : s[j] # ","
         IN  <<SubSeq(s, 1, k - 1)>> \o SplitComma(SubSeq(s, k + 1, Len(s)))

\* [x for x in xs if keep(x)] for keep = "non-empty"
RECURSIVE NonEmptyOnly(_)
NonEmptyOnly(xs) ==
    IF xs = <<>> THEN <<>>
    ELSE IF Head(xs) # <<>> THEN <<Head(xs)>> \o NonEmptyOnly(Tail(xs))
         ELSE NonEmptyOnly(Tail(xs))

\* (a variant that keeps the empty pieces)
ParseServicesNoFilter(text) ==
    LET parts == SplitComma(text) IN [i \in DOMAIN parts |-> Strip(parts[i])]

\* [s.strip() for s in affected_services.split(",") if s.strip()]
ParseServices(text) ==
    LET parts == SplitComma(text)
    IN  NonEmptyOnly([i \in DOMAIN parts |-> Strip(parts[i])])

\* slug[:40]
SlugMax == 40

RECURSIVE KeepSlugChars(_)
KeepSlugChars(s) ==
    IF s = <<>> THEN <<>>
    ELSE IF IsAlnum(Head(s)) \/ Head(s) = "_"
         THEN <<Head(s)>> \o KeepSlugChars(Tail(s))
         ELSE KeepSlugChars(Tail(s))

\* _slugify(text)
Slugify(text) ==
    LET lowered  == Lower(text)
        replaced == [i \in DOMAIN lowered |-> IF lowered[i] = " " THEN "_" ELSE lowered[i]]
        kept     == KeepSlugChars(replaced)
    IN  SubSeq(kept, 1, IF Len(kept) < SlugMax THEN Len(kept) ELSE SlugMax)


\* ------------------------------------------------------------- data model

\* Python None / SQL NULL of a text value (never a text: its one element is
\* not a single character)
None == <<"NULL">>
\* SQL NULL of a timestamp column
NullTime == -1

\* Python truthiness of an optional text: None and "" are falsy
Truthy(s) == s # None /\ s # <<>>

\* Names of documents in the two stores
NoName == [kind |-> "None", id |-> 0, slug |-> <<>>]
\* f"incident_{incident_id}_timeline"
QueryName(id) == [kind |-> "incident_timeline", id |-> id, slug |-> <<>>]
\* f"incident_sig_{incident_id}_{_slugify(title)}"
LearningName(id, title) == [kind |-> "incident_sig", id |-> id, slug |-> Slugify(title)]

\* JSON values held under the keys of a knowledge_pack dict
JList(xs)  == [t |-> "list",  b |-> FALSE, n |-> 0, xs |-> xs,   vq |-> NoName, ln |-> NoName]
JBool(b)   == [t |-> "bool",  b |-> b,     n |-> 0, xs |-> <<>>, vq |-> NoName, ln |-> NoName]
JTime(n)   == [t |-> "time",  b |-> FALSE, n |-> n, xs |-> <<>>, vq |-> NoName, ln |-> NoName]
JArtifacts(vq, ln) ==
    [t |-> "artifacts", b |-> FALSE, n |-> 0, xs |-> <<>>, vq |-> vq, ln |-> ln]

\* A Python dict with string keys: a function from the keys it holds
EmptyDict == [k \in {} |-> JBool(FALSE)]
DictOf(keys, val(_)) == [k \in keys |-> val(k)]
\* d[key] = v on a copy of d
DictSet(d, key, v) == [k \in DOMAIN d \cup {key} |-> IF k = key THEN v ELSE d[k]]
\* d.get(key) is truthy
DictGetTruthy(d, key) ==
    /\ key \in DOMAIN d
    /\ \/ d[key].t = "list" /\ d[key].xs # <<>>
       \/ d[key].t = "bool" /\ d[key].b
       \/ d[key].t = "time"
       \/ d[key].t = "artifacts"

\* The knowledge_pack column: SQL NULL, or a JSON document (null, a list, a dict)
KpSqlNull  == [kind |-> "SQLNULL", d |-> EmptyDict]
KpJsonNull == [kind |-> "null",    d |-> EmptyDict]
KpList     == [kind |-> "list",    d |-> EmptyDict]
KpDict(d)  == [kind |-> "dict",    d |-> d]

\* The texts callers pass as resolve_incident's knowledge_pack argument
JsonEmpty   == ""
JsonBraces  == "{}"
JsonGotchas == "{\"gotchas\": [\"needs 512MB\"]}"
JsonList    == "[1]"
JsonNull    == "null"
JsonBroken  == "{gotchas"
JsonTexts   == {JsonEmpty, JsonBraces, JsonGotchas, JsonList, JsonNull, JsonBroken}

\* (a variant in which no text is refused)
JsonDecodeErrorNever(text) == FALSE

\* json.loads raises JSONDecodeError
JsonDecodeError(text) == text \in {JsonEmpty, JsonBroken}

\* json.loads(text), for the texts it accepts
JsonLoads(text) ==
    CASE text = JsonBraces  -> KpDict(EmptyDict)
      [] text = JsonGotchas -> KpDict(DictSet(EmptyDict, "gotchas", JList(<<"needs 512MB">>)))
      [] text = JsonList    -> KpList
      [] text = JsonNull    -> KpJsonNull
      [] OTHER              -> KpJsonNull

\* Python truthiness of a loaded JSON value / of the column as the driver
\* returns it (None, a non-empty list, a dict)
KpTruthy(kp) ==
    \/ kp.kind = "list"
    \/ kp.kind = "dict" /\ DOMAIN kp.d # {}

\* isinstance(kp, dict)
IsDict(kp) == kp.kind = "dict"

\* INTERVAL '15 minutes'
WindowMinutes == 15

\* timeline_sql: the query text built from started_at; its upper bound is the
\* SQL expression NOW(), evaluated when the text is run
TimelineSql(started_at) ==
    [present |-> TRUE, lower_anchor |-> started_at, lower_minus |-> WindowMinutes,
     upper_anchor |-> "NOW()", upper_plus |-> WindowMinutes]
NullQuery ==
    [present |-> FALSE, lower_anchor |-> 0, lower_minus |-> 0,
     upper_anchor |-> "", upper_plus |-> 0]

\* The window a stored query text selects when the database runs it at
\* instant t: "'<started_at>'::timestamptz - INTERVAL" is a constant of the
\* text, "COALESCE(NULL, NOW()) + INTERVAL" is evaluated by the run
ReplayWindow(tq, t) ==
    [lower |-> tq.lower_anchor - tq.lower_minus,
     upper |-> (IF tq.upper_anchor = "NOW()" THEN t ELSE 0) + tq.upper_plus]

\* One row of incident_markers
Row(title, severity, started_at, services, root_cause, resolution, resolved_at, tq, kp) ==
    [title |-> title, severity |-> severity, started_at |-> started_at,
     affected_services |-> services, root_cause |-> root_cause,
     resolution |-> resolution, resolved_at |-> resolved_at,
     timeline_query |-> tq, knowledge_pack |-> kp]

NoRow == Row(<<>>, "", 0, <<>>, None, None, NullTime, NullQuery, KpSqlNull)

\* ------------------------------------------------------------------ inputs

T_Ghost == <<"G","h","o","s","t"," ","O","O","M">>
T_Cert  == <<"C","e","r","t","-","I","s","s","u","e","!">>

Svc_web    == <<"w","e","b">>
Svc_db     == <<"d","b">>
SvcText_Two   == <<"w","e","b",","," ","d","b">>
SvcText_One   == <<"d","b",",">>
SvcText_Blank == <<" ",","," ">>
SvcText_Empty == <<>>

RC_oom   == <<"o","o","m">>
RC_mem   == <<"m","e","m"," ","l","i","m","i","t">>
Res_fix  == <<"f","i","x">>
Res_more == <<"5","1","2","M","B">>

\* Arguments of create_incident_marker
CreateInputs ==
    { [title |-> T_Ghost, severity |-> "critical", started_at |-> 0,
       affected_services |-> SvcText_Two, root_cause |-> None, resolution |-> None],
      [title |-> T_Cert, severity |-> "warning", started_at |-> 1,
       affected_services |-> SvcText_One, root_cause |-> RC_oom, resolution |-> Res_fix],
      [title |-> T_Cert, severity |-> "info", started_at |-> 0,
       affected_services |-> SvcText_Two, root_cause |-> None, resolution |-> None],
      [title |-> T_Ghost, severity |-> "fatal", started_at |-> 0,
       affected_services |-> SvcText_One, root_cause |-> None, resolution |-> None],
      [title |-> T_Ghost, severity |-> "Critical", started_at |-> 0,
       affected_services |-> SvcText_Blank, root_cause |-> None, resolution |-> None],
      [title |-> T_Ghost, severity |-> "critical", started_at |-> 0,
       affected_services |-> SvcText_Blank, root_cause |-> None, resolution |-> None],
      [title |-> T_Cert, severity |-> "info", started_at |-> 1,
       affected_services |-> SvcText_Empty, root_cause |-> None, resolution |-> None] }

\* Arguments of resolve_incident other than the id
ResolveInputs ==
    { [root_cause |-> RC_mem, resolution |-> Res_more, knowledge_pack |-> JsonBraces],
      [root_cause |-> RC_oom, resolution |-> Res_fix,  knowledge_pack |-> JsonGotchas],
      [root_cause |-> RC_oom, resolution |-> Res_fix,  knowledge_pack |-> JsonEmpty],
      [root_cause |-> <<>>,   resolution |-> Res_fix,  knowledge_pack |-> JsonBraces],
      [root_cause |-> RC_mem, resolution |-> <<>>,     knowledge_pack |-> JsonList],
      [root_cause |-> RC_mem, resolution |-> Res_fix,  knowledge_pack |-> JsonNull],
      [root_cause |-> RC_mem, resolution |-> Res_fix,  knowledge_pack |-> JsonBroken] }

\* Incident ids callers ask about: those the sequence can hand out, and one more
Ids == 1..(MaxIncidents + 1)


\* ------------------------------------------------------------------- state

VARIABLES
    incident_markers,  \* committed rows of the table: id -> row
    nextId,            \* next value of the table's id sequence
    ops_knowledge,     \* knowledge store: its documents, in the order written
    ops_learnings,     \* learnings store: its documents, in the order written
    now,               \* wall clock
    pc,                \* per caller: the statement its tool call is at
    args,              \* per caller: tool and arguments of the call
    local,             \* per caller: local variables of the call
    pending,           \* per caller: uncommitted write of its open connection
    result             \* per caller: what the finished call returned

vars == <<incident_markers, nextId, ops_knowledge, ops_learnings, now,
          pc, args, local, pending, result>>

dbVars == <<incident_markers, nextId, ops_knowledge, ops_learnings>>

\* What one statement against the warehouse can do: succeed, or raise
\* sqlalchemy's OperationalError or another DatabaseError
DbOutcomes == {"ok", "OperationalError", "DatabaseError"}

\* What one insert into a document store can do: succeed, raise one of the
\* classes the call site catches (ValueError stands for AttributeError,
\* TypeError, ValueError, OSError), raise one of the classes the tool's outer
\* handlers catch, or raise any other exception (RuntimeError stands for them)
StoreOutcomes == {"ok", "ValueError", "OperationalError", "DatabaseError", "RuntimeError"}

\* The environment in which nothing fails
Reliable == {"ok"}

\* The strings the tools return, by their distinguishing text
R_None           == "none"
R_Created        == "**Incident Created:**"
R_Resolved       == "**Incident Resolved:**"
R_Generated      == "**Knowledge Pack Generated**"
R_ErrSeverity    == "Error: severity must be 'critical', 'warning', or 'info'"
R_ErrServices    == "Error: At least one affected service is required."
R_ErrJson        == "Error: Invalid JSON in knowledge_pack"
R_ErrNotOpen     == "Error: Incident not found or already resolved."
R_ErrNotFound    == "Error: Incident not found."
R_ErrNotResolved == "Error: Incident is not yet resolved. Resolve it first."
R_ErrMissing     == "Error: Incident is missing root_cause or resolution."
R_ErrNoCriteria  == "Error: Provide at least services or keywords to search."
R_NoEvents       == "No events found"
R_Timeline       == "**Incident Timeline**"
\* (a variant that answers an empty search with an error)
R_NoMatchesAsError == "Error: No matching incidents found."
R_NoMatches      == "No matching incidents found."
R_Similar        == "**Similar Incidents**"
R_Pack           == "**Knowledge Pack**"
R_ErrConn        == "Error: Database connection failed"
R_ErrDb          == "Error: DatabaseError"
\* no string is returned: the exception leaves the tool
R_Raised         == "raised RuntimeError"

\* The lines of generate's artifact summary
A_QuerySaved    == "Validated query saved"
A_QueryFailed   == "Query save failed"
A_SigSaved      == "Incident signature saved"
A_SigFailed     == "Learning save failed"
A_Runbook       == "Runbook suggestion generated (see below)"
A_KpUpdated     == "Incident knowledge_pack metadata updated"
A_KpFailed      == "Knowledge pack update failed"

\* except OperationalError / except DatabaseError: the returned string
DbErrorResult(outcome) == IF outcome = "OperationalError" THEN R_ErrConn ELSE R_ErrDb

NoArgs    == [op |-> "none", id |-> 0]
\* had / before record what the call's incident was when the call was made;
\* kins / lins the names each store's insert was called with; steps what each
\* step of generate that was attempted did; lim the :lim parameter of a SELECT
NoLocal   == [now |-> 0, kp |-> KpSqlNull, found |-> FALSE, row |-> NoRow,
              kins |-> <<>>, lins |-> <<>>, artifacts |-> <<>>,
              had |-> FALSE, before |-> NoRow, steps |-> <<>>, lim |-> 0]
\* One attempted step of generate and how it ended
Step(step, outcome) == [step |-> step, outcome |-> outcome]
NoPending == [kind |-> "none", id |-> 0, row |-> NoRow]
\* What get_incident_knowledge_pack renders of a row
NoPack    == [status |-> "", root_cause |-> FALSE, resolution |-> FALSE, notice |-> FALSE,
              gotchas |-> <<>>, query |-> NoName, learning |-> NoName, generated_at |-> FALSE]
\* What the runbook suggestion says
NoRunbook == [incident_id |-> 0, title |-> <<>>, severity |-> "", services |-> <<>>,
              root_cause |-> None, resolution |-> None, gotchas |-> <<>>,
              timeline_name |-> NoName]
NoResult  == [kind |-> R_None, id |-> 0, artifacts |-> <<>>, rows |-> <<>>, pack |-> NoPack,
              runbook |-> NoRunbook]

Res(kind, id) == [NoResult EXCEPT !.kind = kind, !.id = id]

\* Rows present before any tool call: an empty table, or one open incident
\* loaded without a stored timeline query (the column is nullable)
LegacyRow == Row(T_Ghost, "critical", 0, <<Svc_web>>, None, None, NullTime, NullQuery, KpSqlNull)
EmptyTable == [i \in {} |-> NoRow]
SeedTables == {EmptyTable, [i \in {1} |-> LegacyRow]}

\* A document store holds entries [name, doc]; Names is the set of names in it
NoDocs == <<>>
Names(store) == {store[i].name : i \in DOMAIN store}

InitWith(tables) ==
    /\ incident_markers \in tables
    /\ nextId = Cardinality(DOMAIN incident_markers) + 1
    /\ ops_knowledge = NoDocs
    /\ ops_learnings = NoDocs
    /\ now = 0
    /\ pc = [p \in Procs |-> "idle"]
    /\ args = [p \in Procs |-> NoArgs]
    /\ local = [p \in Procs |-> NoLocal]
    /\ pending = [p \in Procs |-> NoPending]
    /\ result = [p \in Procs |-> NoResult]

Init == InitWith(SeedTables)

\* datetime.now(timezone.utc) / NOW(): the clock may have advanced since it
\* was last read
ClockReads == {t \in now..(now + 1) : t <= MaxClock}

\* (a variant in which an uncommitted update does not lock its row)
LockedNever(id, p) == FALSE

\* A row another open connection has updated and not yet committed is locked
Locked(id, p) == \E q \in Procs \ {p} : pending[q].kind = "update" /\ pending[q].id = id

\* conn.commit(): the connection's write becomes visible
Committed(p) ==
    IF pending[p].kind = "none" THEN incident_markers
    ELSE [i \in DOMAIN incident_markers \cup {pending[p].id} |->
            IF i = pending[p].id THEN pending[p].row ELSE incident_markers[i]]

\* The call is over: the caller has its result
Finish(p, res) ==
    /\ pc' = [pc EXCEPT ![p] = "done"]
    /\ result' = [result EXCEPT ![p] = res]
    /\ pending' = [pending EXCEPT ![p] = NoPending]

\* ------------------------------------------------- create_incident_marker

\* (a variant that accepts every severity)
SeverityAnyAccepted(severity) == TRUE

\* if severity not in ("critical", "warning", "info")
ValidSeverity(severity) == severity \in {"critical", "warning", "info"}

\* The call, its two validations and INSERT INTO incident_markers ... RETURNING id
CreateInsert(p, in, outs) ==
    /\ pc[p] = "idle"
    /\ nextId <= MaxIncidents
    /\ args' = [args EXCEPT ![p] = [op |-> "create", id |-> 0, in |-> in]]
    /\ IF ~ValidSeverity(in.severity)
       THEN Finish(p, Res(R_ErrSeverity, 0)) /\ UNCHANGED nextId
       ELSE IF ParseServices(in.affected_services) = <<>>
       THEN Finish(p, Res(R_ErrServices, 0)) /\ UNCHANGED nextId
       ELSE \E outcome \in outs :
              IF outcome = "ok"
              THEN /\ pending' = [pending EXCEPT ![p] =
                         [kind |-> "insert", id |-> nextId,
                          row |-> Row(in.title, in.severity, in.started_at,
                                      ParseServices(in.affected_services),
                                      in.root_cause, in.resolution, NullTime,
                                      TimelineSql(in.started_at), KpSqlNull)]]
                   /\ nextId' = nextId + 1
                   /\ pc' = [pc EXCEPT ![p] = "c_commit"]
                   /\ UNCHANGED result
              ELSE /\ Finish(p, Res(DbErrorResult(outcome), 0))
                   /\ UNCHANGED nextId
    /\ UNCHANGED <<incident_markers, ops_knowledge, ops_learnings, now, local>>

\* conn.commit() and the confirmation
CreateCommit(p, outs) ==
    /\ pc[p] = "c_commit"
    /\ \E outcome \in outs :
         IF outcome = "ok"
         THEN /\ incident_markers' = Committed(p)
              /\ Finish(p, Res(R_Created, pending[p].id))
         ELSE /\ Finish(p, Res(DbErrorResult(outcome), 0))
              /\ UNCHANGED incident_markers
    /\ UNCHANGED <<nextId, ops_knowledge, ops_learnings, now, args, local>>

\* ------------------------------------------------------- resolve_incident

\* json.loads(knowledge_pack) if knowledge_pack else {}
ParseKnowledgePack(text) == IF text # "" THEN JsonLoads(text) ELSE KpDict(EmptyDict)

\* (a variant without "AND resolved_at IS NULL")
ResolveWhereAnyState(id) == id \in DOMAIN incident_markers

\* WHERE id = :id AND resolved_at IS NULL
ResolveWhere(id) ==
    id \in DOMAIN incident_markers /\ incident_markers[id].resolved_at = NullTime

\* (a variant that leaves the knowledge_pack column alone)
ResolveSetKeepsPack(row, t, in, kp) ==
    [row EXCEPT !.resolved_at = t, !.root_cause = in.root_cause,
                !.resolution = in.resolution]

\* (a variant that leaves the root_cause column alone)
ResolveSetKeepsCause(row, t, in, kp) ==
    [row EXCEPT !.resolved_at = t, !.resolution = in.resolution, !.knowledge_pack = kp]

\* (a variant that also moves started_at to the time of the resolve)
ResolveSetMovesStart(row, t, in, kp) ==
    [row EXCEPT !.resolved_at = t, !.root_cause = in.root_cause,
                !.resolution = in.resolution, !.knowledge_pack = kp,
                !.started_at = t]

\* SET resolved_at = :now, root_cause = :root_cause, resolution = :resolution,
\*     knowledge_pack = :kp
ResolveSet(row, t, in, kp) ==
    [row EXCEPT !.resolved_at = t, !.root_cause = in.root_cause,
                !.resolution = in.resolution, !.knowledge_pack = kp]

\* The call, the parse of knowledge_pack and the reading of the clock
ResolveBegin(p, id, in) ==
    /\ pc[p] = "idle"
    /\ args' = [args EXCEPT ![p] = [op |-> "resolve", id |-> id, in |-> in]]
    /\ IF in.knowledge_pack # "" /\ JsonDecodeError(in.knowledge_pack)
       THEN Finish(p, Res(R_ErrJson, id)) /\ UNCHANGED <<local, now>>
       ELSE \E t \in ClockReads :
              /\ now' = t
              /\ local' = [local EXCEPT ![p] =
                    [NoLocal EXCEPT !.now = t,
                                    !.kp = ParseKnowledgePack(in.knowledge_pack),
                                    !.had = id \in DOMAIN incident_markers,
                                    !.before = IF id \in DOMAIN incident_markers
                                               THEN incident_markers[id] ELSE NoRow]]
              /\ pc' = [pc EXCEPT ![p] = "r_update"]
              /\ UNCHANGED <<pending, result>>
    /\ UNCHANGED dbVars

\* UPDATE incident_markers SET ... WHERE id = :id AND resolved_at IS NULL
\* RETURNING ...; it waits while the row it would change is locked
ResolveUpdate(p, outs) ==
    /\ pc[p] = "r_update"
    /\ ~(ResolveWhere(args[p].id) /\ Locked(args[p].id, p))
    /\ \E outcome \in outs :
         IF outcome = "ok"
         THEN /\ pc' = [pc EXCEPT ![p] = "r_commit"]
              /\ IF ResolveWhere(args[p].id)
                 THEN /\ pending' = [pending EXCEPT ![p] =
                            [kind |-> "update", id |-> args[p].id,
                             row |-> ResolveSet(incident_markers[args[p].id],
                                                local[p].now, args[p].in, local[p].kp)]]
                      /\ local' = [local EXCEPT ![p].found = TRUE]
                 ELSE UNCHANGED <<pending, local>>
              /\ UNCHANGED result
         ELSE /\ Finish(p, Res(DbErrorResult(outcome), args[p].id))
              /\ UNCHANGED local
    /\ UNCHANGED <<dbVars, now, args>>

\* conn.commit(), then "if not row" and the confirmation
ResolveCommit(p, outs) ==
    /\ pc[p] = "r_commit"
    /\ \E outcome \in outs :
         IF outcome = "ok"
         THEN /\ incident_markers' = Committed(p)
              /\ IF local[p].found
                 THEN Finish(p, Res(R_Resolved, args[p].id))
                 ELSE Finish(p, Res(R_ErrNotOpen, args[p].id))
         ELSE /\ Finish(p, Res(DbErrorResult(outcome), args[p].id))
              /\ UNCHANGED incident_markers
    /\ UNCHANGED <<nextId, ops_knowledge, ops_learnings, now, args, local>>

\* ------------------------------------------------ generate_knowledge_pack

\* (a variant that never takes over the stored pack)
ExistingKpAlwaysEmpty(row) == KpDict(EmptyDict)

\* existing_kp = row[9] or {}
ExistingKp(row) ==
    IF KpTruthy(row.knowledge_pack) THEN row.knowledge_pack ELSE KpDict(EmptyDict)

\* query_payload, the document saved to the knowledge store
QueryDoc(id, row) ==
    [type |-> "validated_query", name |-> QueryName(id), incident_id |-> id,
     question_title |-> row.title, query |-> row.timeline_query,
     summary_severity |-> row.severity, summary_services |-> row.affected_services,
     summary_root_cause |-> row.root_cause, tables_used |-> <<"ops_unified_timeline">>]

\* symptom_patterns, in the order of the dict
SymptomPatterns ==
    << [pattern |-> <<"o","o","m">>,
        label |-> "Out of memory / OOM kill"],
       [pattern |-> <<"c","r","a","s","h">>,
        label |-> "Service crash / restart loop"],
       [pattern |-> <<"t","i","m","e","o","u","t">>,
        label |-> "Request timeout"],
       [pattern |-> <<"5","0","2">>,
        label |-> "HTTP 502 Bad Gateway"],
       [pattern |-> <<"5","0","3">>,
        label |-> "HTTP 503 Service Unavailable"],
       [pattern |-> <<"5","2","1">>,
        label |-> "Cloudflare 521 (origin down)"],
       [pattern |-> <<"c","e","r","t">>,
        label |-> "TLS certificate issue"],
       [pattern |-> <<"d","n","s">>,
        label |-> "DNS resolution failure"],
       [pattern |-> <<"d","i","s","k">>,
        label |-> "Disk space exhaustion"],
       [pattern |-> <<"m","e","m","o","r","y">>,
        label |-> "Memory pressure"],
       [pattern |-> <<"c","p","u">>,
        label |-> "CPU saturation"],
       [pattern |-> <<"c","o","n","n","e","c","t","i","o","n"," ","r","e","f","u","s","e","d">>,
        label |-> "Connection refused"],
       [pattern |-> <<"d","e","p","l","o","y">>,
        label |-> "Deployment failure"],
       [pattern |-> <<"r","o","l","l","b","a","c","k">>,
        label |-> "Rollback required"] >>

\* pattern in text
InText(pattern, text) ==
    \E i \in 1..(Len(text) - Len(pattern) + 1) :
        \A j \in DOMAIN pattern : text[i + j - 1] = pattern[j]

\* The descriptions of the patterns found in text, in the order of the dict
RECURSIVE MatchedFrom(_, _)
MatchedFrom(k, text) ==
    IF k > Len(SymptomPatterns) THEN <<>>
    ELSE (IF InText(SymptomPatterns[k].pattern, text)
          THEN <<SymptomPatterns[k].label>> ELSE <<>>) \o MatchedFrom(k + 1, text)

\* list(dict.fromkeys(xs)): each value once, at the place of its first occurrence
RECURSIVE FromKeys(_)
FromKeys(xs) ==
    IF xs = <<>> THEN <<>>
    ELSE LET front == FromKeys(SubSeq(xs, 1, Len(xs) - 1))
             last  == xs[Len(xs)]
         IN  IF \E i \in DOMAIN front : front[i] = last THEN front
             ELSE Append(front, last)

\* kp["symptoms"] if isinstance(kp, dict) and kp.get("symptoms"), else nothing
CarriedSymptoms(kp) ==
    IF IsDict(kp) /\ DictGetTruthy(kp.d, "symptoms") THEN kp.d["symptoms"].xs ELSE <<>>

\* (a variant that returns the list as collected, without dict.fromkeys)
ExtractSymptomsNoDedupe(title, root_cause, kp) ==
    MatchedFrom(1, Lower(title \o <<" ">> \o root_cause)) \o CarriedSymptoms(kp)

\* _extract_symptoms(title, root_cause, kp), text = f"{title} {root_cause}".lower()
ExtractSymptoms(title, root_cause, kp) ==
    FromKeys(MatchedFrom(1, Lower(title \o <<" ">> \o root_cause)) \o CarriedSymptoms(kp))

\* int(x / d) for d > 0: the quotient rounded toward zero
IntQuotient(x, d) == IF x >= 0 THEN x \div d ELSE -((-x) \div d)

\* An optional number of minutes: Python None, or an int
NoMinutes == [present |-> FALSE, minutes |-> 0]
SomeMinutes(n) == [present |-> TRUE, minutes |-> n]

\* (a variant without max(0, ...))
ComputeDurationNoClamp(started_at, resolved_at) ==
    IF started_at = NullTime \/ resolved_at = NullTime THEN NoMinutes
    ELSE SomeMinutes(IntQuotient(resolved_at - started_at, 60))

\* _compute_duration(started_at, resolved_at), the two timestamps in seconds:
\* max(0, int(delta.total_seconds() / 60)), None when one of them is None
ComputeDuration(started_at, resolved_at) ==
    IF started_at = NullTime \/ resolved_at = NullTime THEN NoMinutes
    ELSE LET minutes == IntQuotient(resolved_at - started_at, 60)
         IN  SomeMinutes(IF minutes > 0 THEN minutes ELSE 0)

\* The clock counts minutes: the seconds of an instant of the clock
Seconds(t) == IF t = NullTime THEN NullTime ELSE 60 * t

\* signature, the document saved to the learnings store
SignatureDoc(id, row) ==
    [type |-> "incident_signature", incident_id |-> id, title |-> row.title,
     severity |-> row.severity, affected_services |-> row.affected_services,
     root_cause |-> row.root_cause, resolution |-> row.resolution,
     started_at |-> row.started_at, resolved_at |-> row.resolved_at,
     symptoms |-> ExtractSymptoms(row.title, row.root_cause, ExistingKp(row)),
     duration_minutes |-> ComputeDuration(Seconds(row.started_at), Seconds(row.resolved_at)),
     gotchas |-> IF IsDict(ExistingKp(row)) /\ DictGetTruthy(ExistingKp(row).d, "gotchas")
                 THEN ExistingKp(row).d["gotchas"].xs ELSE <<>>]

\* (a variant without skip_if_exists: every insert adds a document)
StoreInsertNoSkip(store, name, doc) == Append(store, [name |-> name, doc |-> doc])

\* Knowledge.insert(name=..., text_content=..., skip_if_exists=True) that succeeds
StoreInsert(store, name, doc) ==
    IF name \in Names(store) THEN store
    ELSE Append(store, [name |-> name, doc |-> doc])

\* (a variant that names the validated query whether or not one was saved)
UpdatedKpAlwaysQuery(id, row, t) ==
    LET base == IF IsDict(ExistingKp(row)) THEN ExistingKp(row).d ELSE EmptyDict
        d1   == DictSet(base, "knowledge_pack_generated", JBool(TRUE))
        d2   == DictSet(d1, "generated_at", JTime(t))
        d3   == DictSet(d2, "artifacts",
                    JArtifacts(QueryName(id), LearningName(id, row.title)))
    IN  KpDict(d3)

\* (a variant that starts from an empty dict whatever the pack holds)
UpdatedKpOverwrite(id, row, t) ==
    LET d1   == DictSet(EmptyDict, "knowledge_pack_generated", JBool(TRUE))
        d2   == DictSet(d1, "generated_at", JTime(t))
        d3   == DictSet(d2, "artifacts",
                    JArtifacts(IF row.timeline_query.present THEN QueryName(id) ELSE NoName,
                               LearningName(id, row.title)))
    IN  KpDict(d3)

\* updated_kp: a copy of the existing dict (or a new dict) with the three
\* linkage keys set
UpdatedKp(id, row, t) ==
    LET base == IF IsDict(ExistingKp(row)) THEN ExistingKp(row).d ELSE EmptyDict
        d1   == DictSet(base, "knowledge_pack_generated", JBool(TRUE))
        d2   == DictSet(d1, "generated_at", JTime(t))
        d3   == DictSet(d2, "artifacts",
                    JArtifacts(IF row.timeline_query.present THEN QueryName(id) ELSE NoName,
                               LearningName(id, row.title)))
    IN  KpDict(d3)

\* (a variant that looks at root_cause and resolution before resolved_at)
GenPreconditionMissingFirst(found, row) ==
    IF ~found THEN R_ErrNotFound
    ELSE IF ~Truthy(row.root_cause) \/ ~Truthy(row.resolution) THEN R_ErrMissing
    ELSE IF row.resolved_at = NullTime THEN R_ErrNotResolved
    ELSE R_None

\* (a variant without the check of resolved_at)
GenPreconditionNoResolvedCheck(found, row) ==
    IF ~found THEN R_ErrNotFound
    ELSE IF ~Truthy(row.root_cause) \/ ~Truthy(row.resolution) THEN R_ErrMissing
    ELSE R_None

\* The three fail-fast checks on the row that was read, in the code's order
GenPrecondition(found, row) ==
    IF ~found THEN R_ErrNotFound
    ELSE IF row.resolved_at = NullTime THEN R_ErrNotResolved
    ELSE IF ~Truthy(row.root_cause) \/ ~Truthy(row.resolution) THEN R_ErrMissing
    ELSE R_None

\* The call, SELECT ... FROM incident_markers WHERE id = :id, and the checks
GenSelect(p, id, outs) ==
    /\ pc[p] = "idle"
    /\ args' = [args EXCEPT ![p] = [op |-> "generate", id |-> id]]
    /\ \E outcome \in outs :
         IF outcome # "ok"
         THEN Finish(p, Res(DbErrorResult(outcome), id)) /\ UNCHANGED local
         ELSE LET found == id \in DOMAIN incident_markers
                  row   == IF found THEN incident_markers[id] ELSE NoRow
                  err   == GenPrecondition(found, row)
              IN  IF err # R_None
                  THEN Finish(p, Res(err, id)) /\ UNCHANGED local
                  ELSE /\ local' = [local EXCEPT ![p] = [NoLocal EXCEPT !.found = TRUE,
                                                                       !.row = row]]
                       /\ pc' = [pc EXCEPT ![p] =
                             IF row.timeline_query.present THEN "g_query" ELSE "g_learning"]
                       /\ UNCHANGED <<pending, result>>
    /\ UNCHANGED <<dbVars, now>>

\* 1. knowledge.insert(name=query_name, ...) inside try / except
GenSaveQuery(p, outs) ==
    /\ pc[p] = "g_query"
    /\ \E outcome \in outs :
         LET name  == QueryName(args[p].id)
             called == [local EXCEPT ![p].kins = Append(@, name),
                                     ![p].steps = Append(@, Step("query", outcome))]
         IN  CASE outcome = "ok" ->
                    /\ ops_knowledge' = StoreInsert(ops_knowledge, name,
                                                    QueryDoc(args[p].id, local[p].row))
                    /\ local' = [called EXCEPT ![p].artifacts = Append(@, A_QuerySaved)]
                    /\ pc' = [pc EXCEPT ![p] = "g_learning"]
                    /\ UNCHANGED <<pending, result>>
               [] outcome = "ValueError" ->
                    /\ local' = [called EXCEPT ![p].artifacts = Append(@, A_QueryFailed)]
                    /\ pc' = [pc EXCEPT ![p] = "g_learning"]
                    /\ UNCHANGED <<ops_knowledge, pending, result>>
               [] outcome \in {"OperationalError", "DatabaseError"} ->
                    /\ local' = called
                    /\ Finish(p, Res(DbErrorResult(outcome), args[p].id))
                    /\ UNCHANGED ops_knowledge
               [] OTHER ->
                    /\ local' = called
                    /\ Finish(p, Res(R_Raised, args[p].id))
                    /\ UNCHANGED ops_knowledge
    /\ UNCHANGED <<incident_markers, nextId, ops_learnings, now, args>>

\* 2. learnings.insert(name=learning_name, ...) inside try / except, then
\* 3. the runbook text and the reading of the clock for generated_at
GenSaveLearning(p, outs) ==
    /\ pc[p] = "g_learning"
    /\ \E outcome \in outs :
         LET name   == LearningName(args[p].id, local[p].row.title)
             called == [local EXCEPT ![p].lins = Append(@, name),
                                     ![p].steps = Append(@, Step("learning", outcome))]
         IN  CASE outcome \in {"ok", "ValueError"} ->
                    /\ ops_learnings' =
                         IF outcome = "ok"
                         THEN StoreInsert(ops_learnings, name,
                                          SignatureDoc(args[p].id, local[p].row))
                         ELSE ops_learnings
                    /\ \E t \in ClockReads :
                         /\ now' = t
                         /\ local' = [called EXCEPT
                               ![p].artifacts =
                                   @ \o <<IF outcome = "ok" THEN A_SigSaved ELSE A_SigFailed,
                                          A_Runbook>>,
                               ![p].now = t,
                               ![p].kp = UpdatedKp(args[p].id, local[p].row, t)]
                    /\ pc' = [pc EXCEPT ![p] = "g_update"]
                    /\ UNCHANGED <<pending, result>>
               [] outcome \in {"OperationalError", "DatabaseError"} ->
                    /\ local' = called
                    /\ Finish(p, Res(DbErrorResult(outcome), args[p].id))
                    /\ UNCHANGED <<ops_learnings, now>>
               [] OTHER ->
                    /\ local' = called
                    /\ Finish(p, Res(R_Raised, args[p].id))
                    /\ UNCHANGED <<ops_learnings, now>>
    /\ UNCHANGED <<incident_markers, nextId, ops_knowledge, args>>

\* ", ".join(xs)
RECURSIVE Join(_)
Join(xs) ==
    IF xs = <<>> THEN <<>>
    ELSE IF Len(xs) = 1 THEN xs[1]
    ELSE xs[1] \o <<",", " ">> \o Join(Tail(xs))

\* (a variant that names only the first service)
RunbookServicesFirstOnly(services) ==
    IF services # <<>> THEN services[1] ELSE <<"u","n","k","n","o","w","n">>

\* svc_str = ", ".join(services) if services else "unknown"
RunbookServices(services) ==
    IF services # <<>> THEN Join(services) ELSE <<"u","n","k","n","o","w","n">>

\* _generate_runbook_suggestion(...), from the row read by the SELECT
RunbookSuggestion(id, row) ==
    [incident_id |-> id, title |-> row.title, severity |-> row.severity,
     services |-> RunbookServices(row.affected_services),
     root_cause |-> row.root_cause, resolution |-> row.resolution,
     gotchas |-> IF IsDict(ExistingKp(row)) /\ DictGetTruthy(ExistingKp(row).d, "gotchas")
                 THEN ExistingKp(row).d["gotchas"].xs ELSE <<>>,
     timeline_name |-> QueryName(id)]

\* The summary string: the artifact lines collected so far, then the runbook
Summary(p, lines) ==
    [Res(R_Generated, args[p].id) EXCEPT
        !.artifacts = lines,
        !.runbook = RunbookSuggestion(args[p].id, local[p].row)]

\* 4. UPDATE incident_markers SET knowledge_pack = :kp WHERE id = :id, inside
\* try / except; it waits while the row is locked
GenUpdate(p, outs) ==
    /\ pc[p] = "g_update"
    /\ ~Locked(args[p].id, p)
    /\ \E outcome \in outs :
         IF outcome = "ok"
         THEN /\ pending' = [pending EXCEPT ![p] =
                    IF args[p].id \in DOMAIN incident_markers
                    THEN [kind |-> "update", id |-> args[p].id,
                          row |-> [incident_markers[args[p].id] EXCEPT
                                      !.knowledge_pack = local[p].kp]]
                    ELSE NoPending]
              /\ pc' = [pc EXCEPT ![p] = "g_commit"]
              /\ UNCHANGED <<result, local>>
         ELSE /\ local' = [local EXCEPT ![p].artifacts = Append(@, A_KpFailed),
                                        ![p].steps = Append(@, Step("update", outcome))]
              /\ Finish(p, Summary(p, Append(local[p].artifacts, A_KpFailed)))
    /\ UNCHANGED <<dbVars, now, args>>

\* conn.commit() of the update, and the summary
GenCommit(p, outs) ==
    /\ pc[p] = "g_commit"
    /\ \E outcome \in outs :
         LET line == IF outcome = "ok" THEN A_KpUpdated ELSE A_KpFailed
         IN  /\ incident_markers' = IF outcome = "ok" THEN Committed(p) ELSE incident_markers
             /\ local' = [local EXCEPT ![p].artifacts = Append(@, line),
                                       ![p].steps = Append(@, Step("update", outcome))]
             /\ Finish(p, Summary(p, Append(local[p].artifacts, line)))
    /\ UNCHANGED <<nextId, ops_knowledge, ops_learnings, now, args>>

\* -------------------------------------------- get_incident_knowledge_pack

\* The lines rendered from the row: status, root cause, resolution, and either
\* the pack's gotchas / linked artifacts / generation time or the notice
\* "No knowledge pack generated yet"
RenderPack(row) ==
    LET kp   == IF KpTruthy(row.knowledge_pack) THEN row.knowledge_pack ELSE KpDict(EmptyDict)
        show == IsDict(kp) /\ DOMAIN kp.d # {}
        art  == show /\ DictGetTruthy(kp.d, "artifacts")
    IN  [status       |-> IF row.resolved_at # NullTime THEN "Resolved" ELSE "ONGOING",
         root_cause   |-> Truthy(row.root_cause),
         resolution   |-> Truthy(row.resolution),
         notice       |-> ~show,
         gotchas      |-> IF show /\ DictGetTruthy(kp.d, "gotchas")
                          THEN kp.d["gotchas"].xs ELSE <<>>,
         query        |-> IF art THEN kp.d["artifacts"].vq ELSE NoName,
         learning     |-> IF art THEN kp.d["artifacts"].ln ELSE NoName,
         generated_at |-> show /\ DictGetTruthy(kp.d, "generated_at")]

\* (a variant that stores the pack it rendered from back into the row)
RetrieveStoresPack(p, id, outs) ==
    /\ pc[p] = "idle"
    /\ args' = [args EXCEPT ![p] = [op |-> "retrieve", id |-> id]]
    /\ \E outcome \in outs :
         IF outcome # "ok"
         THEN Finish(p, Res(DbErrorResult(outcome), id)) /\ UNCHANGED incident_markers
         ELSE IF id \notin DOMAIN incident_markers
         THEN Finish(p, Res(R_ErrNotFound, id)) /\ UNCHANGED incident_markers
         ELSE /\ Finish(p, [Res(R_Pack, id) EXCEPT !.pack = RenderPack(incident_markers[id])])
              /\ incident_markers' =
                    [incident_markers EXCEPT
                        ![id].knowledge_pack = ExistingKp(incident_markers[id])]
    /\ UNCHANGED <<nextId, ops_knowledge, ops_learnings, now, local>>

\* The call and its one SELECT
Retrieve(p, id, outs) ==
    /\ pc[p] = "idle"
    /\ args' = [args EXCEPT ![p] = [op |-> "retrieve", id |-> id]]
    /\ \E outcome \in outs :
         IF outcome # "ok" THEN Finish(p, Res(DbErrorResult(outcome), id))
         ELSE IF id \notin DOMAIN incident_markers THEN Finish(p, Res(R_ErrNotFound, id))
         ELSE Finish(p, [Res(R_Pack, id) EXCEPT !.pack = RenderPack(incident_markers[id])])
    /\ UNCHANGED <<dbVars, now, local>>

\* ------------------------------------------------- find_similar_incidents

\* s LIKE pattern: % matches any run of characters, _ any one character
RECURSIVE Like(_, _)
Like(s, pat) ==
    IF pat = <<>> THEN s = <<>>
    ELSE IF Head(pat) = "%"
         THEN Like(s, Tail(pat)) \/ (s # <<>> /\ Like(Tail(s), pat))
         ELSE /\ s # <<>>
              /\ Head(pat) = "_" \/ Head(pat) = Head(s)
              /\ Like(Tail(s), Tail(pat))

\* s ILIKE f"%{needle}%"; NULL ILIKE anything is not true
ILikeContains(s, needle) ==
    s # None /\ Like(Lower(s), <<"%">> \o Lower(needle) \o <<"%">>)

\* affected_services && :svc_arr
Overlaps(xs, ys) == \E i \in DOMAIN xs, j \in DOMAIN ys : xs[i] = ys[j]

\* min(limit, 50)
SearchCap == 50
Min(a, b) == IF a < b THEN a ELSE b

\* The WHERE clause built from the criteria that were given, joined by OR
SearchWhere(row, in) ==
    \/ /\ Truthy(in.services)
       /\ Overlaps(row.affected_services, ParseServices(in.services))
    \/ /\ Truthy(in.keywords)
       /\ \/ ILikeContains(row.root_cause, in.keywords)
          \/ ILikeContains(row.title, in.keywords)

\* ORDER BY started_at DESC: the sequences of the ids in `ids` a sort may yield
\* (rows with equal started_at come in any order)
Orderings(ids, key(_), descending) ==
    {o \in [1..Cardinality(ids) -> ids] :
        /\ \A i, j \in DOMAIN o : i # j => o[i] # o[j]
        /\ \A i, j \in DOMAIN o :
             i < j => IF descending THEN key(o[i]) >= key(o[j]) ELSE key(o[i]) <= key(o[j])}

\* One line of the result: the [+]/[-] mark, the id, resolved or ONGOING
SearchLine(id, row) ==
    [id |-> id,
     mark |-> IF row.knowledge_pack.kind # "SQLNULL" THEN "+" ELSE "-",
     status |-> IF row.resolved_at # NullTime THEN "resolved" ELSE "ONGOING"]

SearchInputs ==
    { [services |-> None, keywords |-> None, limit |-> 10],
      [services |-> SvcText_One, keywords |-> None, limit |-> 10],
      [services |-> None, keywords |-> <<"O","O","M">>, limit |-> 10],
      [services |-> <<"w","e","b">>, keywords |-> <<"m","e","m">>, limit |-> 1] }

\* The call, the check of the criteria and the one SELECT
Search(p, in, outs) ==
    /\ pc[p] = "idle"
    /\ args' = [args EXCEPT ![p] = [op |-> "search", id |-> 0, in |-> in]]
    /\ IF ~Truthy(in.services) /\ ~Truthy(in.keywords)
       THEN Finish(p, Res(R_ErrNoCriteria, 0)) /\ UNCHANGED local
       ELSE /\ local' = [local EXCEPT ![p] =
                  [NoLocal EXCEPT !.lim = Min(in.limit, SearchCap)]]
            /\ \E outcome \in outs :
              IF outcome # "ok" THEN Finish(p, Res(DbErrorResult(outcome), 0))
              ELSE LET hits == {i \in DOMAIN incident_markers :
                                  SearchWhere(incident_markers[i], in)}
                       started(i) == incident_markers[i].started_at
                   IN  \E o \in Orderings(hits, started, TRUE) :
                         LET n    == Min(Len(o), Min(in.limit, SearchCap))
                             rows == [k \in 1..n |-> SearchLine(o[k], incident_markers[o[k]])]
                         IN  IF rows = <<>> THEN Finish(p, Res(R_NoMatches, 0))
                             ELSE Finish(p, [Res(R_Similar, 0) EXCEPT !.rows = rows])
    /\ UNCHANGED <<dbVars, now>>

\* --------------------------------------------------- reconstruct_timeline

\* Rows of the view ops_unified_timeline
Events ==
    << [occurred_at |-> 0, source |-> "deploy",   event_type |-> "push",
        entity |-> <<"W","e","b">>, environment |-> "prod"],
       [occurred_at |-> 1, source |-> "docker",   event_type |-> "die",
        entity |-> <<"w","e","b">>, environment |-> "prod"],
       [occurred_at |-> 1, source |-> "incident", event_type |-> "critical",
        entity |-> <<"d","b">>,     environment |-> "prod"],
       [occurred_at |-> 2, source |-> "container-runtime", event_type |-> "oom",
        entity |-> <<"d","b">>,     environment |-> "prod"] >>

\* min(limit, 500)
TimelineCap == 500

\* (a variant whose map gives docker the tag of deploy)
IconDockerAsDeploy(source) ==
    CASE source = "deploy"   -> "D"
      [] source = "docker"   -> "D"
      [] source = "incident" -> "!"
      [] OTHER               -> "?"

\* icon.get(source, '?')
Icon(source) ==
    CASE source = "deploy"   -> "D"
      [] source = "docker"   -> "C"
      [] source = "incident" -> "!"
      [] OTHER               -> "?"

TimelineInputs ==
    { [start_time |-> 0, end_time |-> 1, entity_filter |-> None, limit |-> 200],
      [start_time |-> 1, end_time |-> 1, entity_filter |-> <<"W","E">>, limit |-> 1],
      [start_time |-> 2, end_time |-> 3, entity_filter |-> None, limit |-> 200],
      [start_time |-> 0, end_time |-> 1, entity_filter |-> <<"w","_","b">>, limit |-> 2],
      [start_time |-> 1, end_time |-> 0, entity_filter |-> None, limit |-> 501],
      [start_time |-> 0, end_time |-> 1, entity_filter |-> <<>>, limit |-> 501],
      [start_time |-> 0, end_time |-> 1, entity_filter |-> None, limit |-> 2] }

\* WHERE occurred_at BETWEEN :start AND :end [AND entity ILIKE :pattern]
TimelineWhere(e, in) ==
    /\ in.start_time <= e.occurred_at /\ e.occurred_at <= in.end_time
    /\ Truthy(in.entity_filter) => ILikeContains(e.entity, in.entity_filter)

\* The call and its one SELECT
Reconstruct(p, in, outs) ==
    /\ pc[p] = "idle"
    /\ args' = [args EXCEPT ![p] = [op |-> "reconstruct", id |-> 0, in |-> in]]
    /\ local' = [local EXCEPT ![p] = [NoLocal EXCEPT !.lim = Min(in.limit, TimelineCap)]]
    /\ \E outcome \in outs :
         IF outcome # "ok" THEN Finish(p, Res(DbErrorResult(outcome), 0))
         ELSE LET hits == {i \in DOMAIN Events : TimelineWhere(Events[i], in)}
                  at(i) == Events[i].occurred_at
              IN  \E o \in Orderings(hits, at, FALSE) :
                    LET n    == Min(Len(o), Min(in.limit, TimelineCap))
                        rows == [k \in 1..n |->
                                   [id |-> o[k], mark |-> Icon(Events[o[k]].source),
                                    status |-> Events[o[k]].source]]
                    IN  IF rows = <<>> THEN Finish(p, Res(R_NoEvents, 0))
                        ELSE Finish(p, [Res(R_Timeline, 0) EXCEPT !.rows = rows])
    /\ UNCHANGED <<dbVars, now>>

\* ------------------------------------------------------ the pure helpers

\* Timestamps, in seconds, that _compute_duration is called with
DurationStamps == {NullTime, 0, 59, 60, 119, 5400}

\* A call of _compute_duration and what it returns
ComputeDurationCall(p, started_at, resolved_at) ==
    /\ pc[p] = "idle"
    /\ args' = [args EXCEPT ![p] =
          [op |-> "compute_duration", id |-> 0,
           in |-> [started_at |-> started_at, resolved_at |-> resolved_at]]]
    /\ Finish(p, [kind |-> "duration", value |-> ComputeDuration(started_at, resolved_at)])
    /\ UNCHANGED <<dbVars, now, local>>

\* Titles, root causes and prior packs that _extract_symptoms is called with
SymptomTexts ==
    { [title |-> <<"G","h","o","s","t"," ","O","O","M"," ","c","r","a","s","h">>,
       root_cause |-> <<"m","e","m","o","r","y"," ","l","i","m","i","t"," ","e","x","c","e","e","d","e","d">>],
      [title |-> <<"l","o","s","t"," ","c","o","n","n","e","c","t","i","o","n">>,
       root_cause |-> <<"r","e","f","u","s","e","d"," ","b","y"," ","p","e","e","r">>],
      [title |-> <<"G","h","o","s","t"," ","o","o">>, root_cause |-> <<"m"," ","l","i","m","i","t">>],
      [title |-> <<"t","e","s","t">>, root_cause |-> <<"t","e","s","t">>] }
SymptomPacks ==
    { KpJsonNull, KpDict(EmptyDict),
      KpDict(DictSet(EmptyDict, "symptoms", JList(<<"Custom symptom">>))),
      KpDict(DictSet(EmptyDict, "symptoms",
                     JList(<<"Custom symptom", "Out of memory / OOM kill",
                             "Custom symptom", "CPU saturation">>))) }

\* A call of _extract_symptoms and what it returns
ExtractSymptomsCall(p, in, kp) ==
    /\ pc[p] = "idle"
    /\ args' = [args EXCEPT ![p] =
          [op |-> "extract_symptoms", id |-> 0, in |-> in, kp |-> kp]]
    /\ Finish(p, [kind |-> "symptoms",
                  value |-> ExtractSymptoms(in.title, in.root_cause, kp)])
    /\ UNCHANGED <<dbVars, now, local>>

\* --------------------------------------------------------------- the system

\* The caller takes the returned string; it may call again
Return(p) ==
    /\ pc[p] = "done"
    /\ pc' = [pc EXCEPT ![p] = "idle"]
    /\ args' = [args EXCEPT ![p] = NoArgs]
    /\ local' = [local EXCEPT ![p] = NoLocal]
    /\ result' = [result EXCEPT ![p] = NoResult]
    /\ UNCHANGED <<dbVars, now, pending>>

\* One caller; the warehouse and the stores answer every statement
Next ==
    \E p \in {"p1"} :
        \/ \E in \in CreateInputs : CreateInsert(p, in, Reliable)
        \/ CreateCommit(p, Reliable)
        \/ \E id \in Ids, in \in ResolveInputs : ResolveBegin(p, id, in)
        \/ ResolveUpdate(p, Reliable)
        \/ ResolveCommit(p, Reliable)
        \/ \E id \in Ids : GenSelect(p, id, Reliable)
        \/ GenSaveQuery(p, Reliable)
        \/ GenSaveLearning(p, Reliable)
        \/ GenUpdate(p, Reliable)
        \/ GenCommit(p, Reliable)
        \/ \E id \in Ids : Retrieve(p, id, Reliable)
        \/ \E in \in SearchInputs : Search(p, in, Reliable)
        \/ \E in \in TimelineInputs : Reconstruct(p, in, Reliable)
        \/ Return(p)

Spec == Init /\ [][Next]_vars

\* One caller; every statement may fail
NextFaults ==
    \E p \in {"p1"} :
        \/ \E in \in CreateInputs : CreateInsert(p, in, DbOutcomes)
        \/ CreateCommit(p, DbOutcomes)
        \/ \E id \in Ids, in \in ResolveInputs : ResolveBegin(p, id, in)
        \/ ResolveUpdate(p, DbOutcomes)
        \/ ResolveCommit(p, DbOutcomes)
        \/ \E id \in Ids : GenSelect(p, id, DbOutcomes)
        \/ GenSaveQuery(p, StoreOutcomes)
        \/ GenSaveLearning(p, StoreOutcomes)
        \/ GenUpdate(p, DbOutcomes)
        \/ GenCommit(p, DbOutcomes)
        \/ \E id \in Ids : Retrieve(p, id, DbOutcomes)
        \/ \E in \in SearchInputs : Search(p, in, DbOutcomes)
        \/ \E in \in TimelineInputs : Reconstruct(p, in, DbOutcomes)
        \/ Return(p)

SpecFaults == Init /\ [][NextFaults]_vars

\* One caller of the tools that validate their input; every statement may fail
NextInputFaults ==
    \E p \in {"p1"} :
        \/ \E in \in CreateInputs : CreateInsert(p, in, DbOutcomes)
        \/ CreateCommit(p, DbOutcomes)
        \/ \E id \in Ids, in \in ResolveInputs : ResolveBegin(p, id, in)
        \/ ResolveUpdate(p, DbOutcomes)
        \/ ResolveCommit(p, DbOutcomes)
        \/ \E in \in SearchInputs : Search(p, in, DbOutcomes)
        \/ Return(p)

SpecInputFaults == Init /\ [][NextInputFaults]_vars

\* One caller; the warehouse answers every statement, an insert into a
\* document store may fail
StoreFaultCreateInputs ==
    {in \in CreateInputs : in.affected_services = SvcText_Two}
StoreFaultResolveInputs ==
    {in \in ResolveInputs :
        /\ in.knowledge_pack \in {JsonGotchas, JsonBraces}
        /\ Truthy(in.root_cause) /\ Truthy(in.resolution)}

NextStoreFaults ==
    \E p \in {"p1"} :
        \/ \E in \in StoreFaultCreateInputs : CreateInsert(p, in, Reliable)
        \/ CreateCommit(p, Reliable)
        \/ \E id \in Ids, in \in StoreFaultResolveInputs : ResolveBegin(p, id, in)
        \/ ResolveUpdate(p, Reliable)
        \/ ResolveCommit(p, Reliable)
        \/ \E id \in Ids : GenSelect(p, id, Reliable)
        \/ GenSaveQuery(p, StoreOutcomes)
        \/ GenSaveLearning(p, StoreOutcomes)
        \/ GenUpdate(p, Reliable)
        \/ GenCommit(p, Reliable)
        \/ Return(p)

SpecStoreFaults == Init /\ [][NextStoreFaults]_vars

\* One caller; the writing tools run undisturbed, every statement of the
\* three reading tools may fail
NextReadFaults ==
    \E p \in {"p1"} :
        \/ \E in \in StoreFaultCreateInputs : CreateInsert(p, in, Reliable)
        \/ CreateCommit(p, Reliable)
        \/ \E id \in Ids, in \in StoreFaultResolveInputs : ResolveBegin(p, id, in)
        \/ ResolveUpdate(p, Reliable)
        \/ ResolveCommit(p, Reliable)
        \/ \E id \in Ids : GenSelect(p, id, Reliable)
        \/ GenSaveQuery(p, Reliable)
        \/ GenSaveLearning(p, Reliable)
        \/ GenUpdate(p, Reliable)
        \/ GenCommit(p, Reliable)
        \/ \E id \in Ids : Retrieve(p, id, DbOutcomes)
        \/ \E in \in SearchInputs : Search(p, in, DbOutcomes)
        \/ \E in \in TimelineInputs : Reconstruct(p, in, DbOutcomes)
        \/ Return(p)

SpecReadFaults == Init /\ [][NextReadFaults]_vars

\* One caller of the three writing tools; the warehouse and the stores answer
\* every statement
NextWrites ==
    \E p \in {"p1"} :
        \/ \E in \in CreateInputs : CreateInsert(p, in, Reliable)
        \/ CreateCommit(p, Reliable)
        \/ \E id \in Ids, in \in StoreFaultResolveInputs : ResolveBegin(p, id, in)
        \/ ResolveUpdate(p, Reliable)
        \/ ResolveCommit(p, Reliable)
        \/ \E id \in Ids : GenSelect(p, id, Reliable)
        \/ GenSaveQuery(p, Reliable)
        \/ GenSaveLearning(p, Reliable)
        \/ GenUpdate(p, Reliable)
        \/ GenCommit(p, Reliable)
        \/ Return(p)

SpecWrites == Init /\ [][NextWrites]_vars

\* One caller of the three writing tools and of the module's helper
\* functions; the warehouse and the stores answer every statement
HelperCreateInputs ==
    {in \in CreateInputs :
        in.severity \in {"critical", "warning"} /\ ParseServices(in.affected_services) # <<>>}

NextHelpers ==
    \E p \in {"p1"} :
        \/ \E in \in HelperCreateInputs : CreateInsert(p, in, Reliable)
        \/ CreateCommit(p, Reliable)
        \/ \E id \in Ids, in \in StoreFaultResolveInputs : ResolveBegin(p, id, in)
        \/ ResolveUpdate(p, Reliable)
        \/ ResolveCommit(p, Reliable)
        \/ \E id \in Ids : GenSelect(p, id, Reliable)
        \/ GenSaveQuery(p, Reliable)
        \/ GenSaveLearning(p, Reliable)
        \/ GenUpdate(p, Reliable)
        \/ GenCommit(p, Reliable)
        \/ \E s, r \in DurationStamps : ComputeDurationCall(p, s, r)
        \/ \E in \in SymptomTexts, kp \in SymptomPacks : ExtractSymptomsCall(p, in, kp)
        \/ Return(p)

SpecHelpers == Init /\ [][NextHelpers]_vars

\* Two callers at once on one open incident that create has stored; the
\* warehouse and the stores answer every statement
ConcRow ==
    Row(T_Ghost, "critical", 0, <<Svc_web, Svc_db>>, None, None, NullTime,
        TimelineSql(0), KpSqlNull)
ConcIds == {1}
ConcResolveInputs ==
    { [root_cause |-> RC_mem, resolution |-> Res_more, knowledge_pack |-> JsonBraces],
      [root_cause |-> RC_oom, resolution |-> Res_fix,  knowledge_pack |-> JsonGotchas] }

InitConc == InitWith({[i \in ConcIds |-> ConcRow]})

NextConc ==
    \E p \in {"p1", "p2"} :
        \/ \E id \in ConcIds, in \in ConcResolveInputs : ResolveBegin(p, id, in)
        \/ ResolveUpdate(p, Reliable)
        \/ ResolveCommit(p, Reliable)
        \/ \E id \in ConcIds : GenSelect(p, id, Reliable)
        \/ GenSaveQuery(p, Reliable)
        \/ GenSaveLearning(p, Reliable)
        \/ GenUpdate(p, Reliable)
        \/ GenCommit(p, Reliable)
        \/ \E id \in ConcIds : Retrieve(p, id, Reliable)
        \/ Return(p)

SpecConc == InitConc /\ [][NextConc]_vars

\* Three callers racing to resolve the same open incident
NextRace ==
    \E p \in Procs :
        \/ \E id \in ConcIds, in \in ConcResolveInputs : ResolveBegin(p, id, in)
        \/ ResolveUpdate(p, Reliable)
        \/ ResolveCommit(p, Reliable)
        \/ Return(p)

SpecRace == InitConc /\ [][NextRace]_vars

\* One caller searching a table of three incidents that create has stored,
\* and resolving them
SearchTable ==
    <<Row(T_Ghost, "critical", 0, <<Svc_web, Svc_db>>, None, None, NullTime,
          TimelineSql(0), KpSqlNull),
      Row(T_Cert, "warning", 1, <<Svc_db>>, None, None, NullTime,
          TimelineSql(1), KpSqlNull),
      Row(T_Ghost, "info", 1, <<Svc_web>>, None, None, NullTime,
          TimelineSql(1), KpSqlNull)>>

SearchProbes ==
    SearchInputs \cup
    { [services |-> None, keywords |-> <<"o","_","m">>, limit |-> 51],
      [services |-> SvcText_Blank, keywords |-> None, limit |-> 10],
      [services |-> <<"w","e","b">>, keywords |-> <<"c","e","r","t">>, limit |-> 2],
      [services |-> <<>>, keywords |-> <<"G","H","O","S","T">>, limit |-> 1] }

InitSearch == InitWith({SearchTable})

NextSearch ==
    \E p \in {"p1"} :
        \/ \E id \in DOMAIN SearchTable, in \in ConcResolveInputs : ResolveBegin(p, id, in)
        \/ ResolveUpdate(p, Reliable)
        \/ ResolveCommit(p, Reliable)
        \/ \E in \in SearchProbes : Search(p, in, Reliable)
        \/ Return(p)

SpecSearch == InitSearch /\ [][NextSearch]_vars

\* ------------------------------------------------------------- properties

Done(p, op) == pc[p] = "done" /\ args[p].op = op
IsResolved(row) == row.resolved_at # NullTime
\* The call was made while its incident existed and was open / was resolved
MadeOnOpen(p) == local[p].had /\ ~IsResolved(local[p].before)
MadeOnResolved(p) == local[p].had /\ IsResolved(local[p].before)

\* C1: a resolve call made on an open incident succeeds and stores its four
\* values; a resolve call made after that, on the resolved incident, returns
\* "not found or already resolved" and leaves the row exactly as it was.
C1_SecondResolveFails ==
    \A p \in Procs :
        Done(p, "resolve") /\ result[p].kind # R_ErrJson =>
            /\ MadeOnOpen(p) =>
                 /\ result[p].kind = R_Resolved
                 /\ incident_markers[args[p].id] =
                        ResolveSet(local[p].before, local[p].now, args[p].in, local[p].kp)
            /\ MadeOnResolved(p) =>
                 /\ result[p].kind = R_ErrNotOpen
                 /\ incident_markers[args[p].id] = local[p].before

C1_Witness ==
    \E p \in Procs :
        /\ Done(p, "resolve") /\ MadeOnResolved(p)
        /\ result[p].kind = R_ErrNotOpen
        /\ local[p].before.root_cause # args[p].in.root_cause

\* C2: of the resolve calls made on the same incident while it was open, at
\* most one returns success, every other one returns "not found or already
\* resolved" (and only once the incident is resolved), and when all callers
\* made such a call exactly one of them succeeded.
Racers(id) == {p \in Procs : Done(p, "resolve") /\ args[p].id = id /\ MadeOnOpen(p)}
Winners(id) == {p \in Racers(id) : result[p].kind = R_Resolved}

C2_ExactlyOneWinner ==
    \A id \in ConcIds :
        /\ Cardinality(Winners(id)) <= 1
        /\ \A p \in Racers(id) \ Winners(id) :
             result[p].kind = R_ErrNotOpen /\ IsResolved(incident_markers[id])
        /\ Racers(id) = Procs => Cardinality(Winners(id)) = 1

C2_Witness ==
    \E id \in ConcIds :
        /\ Racers(id) = Procs
        /\ Cardinality(Winners(id)) = 1
        /\ \A p \in Procs \ Winners(id) : result[p].kind = R_ErrNotOpen

\* C3: every committed row is the open incident as created, or carries the
\* resolved_at, root_cause, resolution and knowledge_pack of one resolve call
\* (the pack possibly extended by generate); and the row of a call that
\* returned success carries that call's values.
ResolvedBy(id, row, t, in) ==
    LET kp == ParseKnowledgePack(in.knowledge_pack)
    IN  /\ row.resolved_at = t /\ t # NullTime
        /\ row.root_cause = in.root_cause
        /\ row.resolution = in.resolution
        /\ \/ row.knowledge_pack = kp
           \/ \E t2 \in 0..MaxClock :
                row.knowledge_pack = UpdatedKp(id, [row EXCEPT !.knowledge_pack = kp], t2)
        /\ \A f \in {"title", "severity", "started_at", "affected_services", "timeline_query"} :
              row[f] = ConcRow[f]

C3_ResolveAtomic ==
    /\ \A id \in DOMAIN incident_markers :
         \/ incident_markers[id] = ConcRow
         \/ \E t \in 0..MaxClock, in \in ConcResolveInputs :
              ResolvedBy(id, incident_markers[id], t, in)
    /\ \A p \in Procs :
         Done(p, "resolve") /\ result[p].kind = R_Resolved =>
            ResolvedBy(args[p].id, incident_markers[args[p].id], local[p].now, args[p].in)

\* a resolve holds its uncommitted update while another caller has just been
\* shown the incident as ONGOING
C3_Witness ==
    \E p, q \in Procs :
        /\ p # q
        /\ args[p].op = "resolve" /\ pending[p].kind = "update"
        /\ incident_markers[args[p].id] = ConcRow
        /\ Done(q, "retrieve") /\ result[q].pack.status = "ONGOING"

\* C4: no step removes an incident, and no step changes resolved_at,
\* root_cause or resolution of an incident that is resolved.
C4_ResolutionOneWay ==
    [][\A id \in DOMAIN incident_markers :
          /\ id \in DOMAIN incident_markers'
          /\ IsResolved(incident_markers[id]) =>
               /\ incident_markers'[id].resolved_at = incident_markers[id].resolved_at
               /\ incident_markers'[id].root_cause = incident_markers[id].root_cause
               /\ incident_markers'[id].resolution = incident_markers[id].resolution]_vars

\* a resolved incident that generate has since written to, and that a later
\* resolve was refused on
C4_Witness ==
    \E p \in Procs :
        /\ Done(p, "resolve") /\ MadeOnResolved(p)
        /\ "artifacts" \in DOMAIN incident_markers[args[p].id].knowledge_pack.d

\* C5: every stored incident has a severity of the closed set, and a create
\* call with any other severity returns the severity error without ever
\* holding an insert.
C5_SeverityClosed ==
    /\ \A id \in DOMAIN incident_markers :
         incident_markers[id].severity \in {"critical", "warning", "info"}
    /\ \A p \in Procs :
         args[p].op = "create" /\ args[p].in.severity \notin {"critical", "warning", "info"} =>
            /\ pc[p] = "done"
            /\ result[p].kind = R_ErrSeverity
            /\ pending[p].kind = "none"

C5_Witness ==
    \E p \in Procs :
        /\ Done(p, "create") /\ args[p].in.severity = "fatal"
        /\ result[p].kind = R_ErrSeverity
        /\ incident_markers = EmptyTable /\ nextId = 1

\* C6: every stored incident has at least one affected service, each a
\* non-empty name without surrounding blanks, and a create call (of a valid
\* severity) whose service text has no such name returns the services error
\* without ever holding an insert.
IsBlankList(text) ==
    \A i \in DOMAIN SplitComma(text) : \A k \in DOMAIN SplitComma(text)[i] :
        IsSpace(SplitComma(text)[i][k])

C6_ServicesNonEmpty ==
    /\ \A id \in DOMAIN incident_markers :
         LET svcs == incident_markers[id].affected_services
         IN  /\ svcs # <<>>
             /\ \A i \in DOMAIN svcs :
                  /\ svcs[i] # <<>>
                  /\ ~IsSpace(svcs[i][1]) /\ ~IsSpace(svcs[i][Len(svcs[i])])
                  /\ \A k \in DOMAIN svcs[i] : svcs[i][k] # ","
    /\ \A p \in Procs :
         /\ args[p].op = "create"
         /\ args[p].in.severity \in {"critical", "warning", "info"}
         /\ IsBlankList(args[p].in.affected_services)
         => /\ pc[p] = "done"
            /\ result[p].kind = R_ErrServices
            /\ pending[p].kind = "none"

C6_Witness ==
    \E p \in Procs :
        /\ Done(p, "create") /\ args[p].in.affected_services = SvcText_Blank
        /\ result[p].kind = R_ErrServices
        /\ incident_markers = EmptyTable /\ nextId = 1

\* C7 as stated: every resolved incident has a non-empty root_cause and a
\* non-empty resolution.
C7_ResolvedHasCauseAndResolution ==
    \A id \in DOMAIN incident_markers :
        IsResolved(incident_markers[id]) =>
            Truthy(incident_markers[id].root_cause) /\ Truthy(incident_markers[id].resolution)

\* C7 as amended: every resolved incident has a root_cause and a resolution
\* that are present (not NULL), each possibly the empty text; generate refuses
\* a resolved incident with "missing root_cause or resolution" exactly when
\* one of the two is empty.
C7_ResolvedHasPresentTexts ==
    /\ \A id \in DOMAIN incident_markers :
         IsResolved(incident_markers[id]) =>
            incident_markers[id].root_cause # None /\ incident_markers[id].resolution # None
    /\ \A p \in Procs :
         /\ Done(p, "generate")
         /\ args[p].id \in DOMAIN incident_markers
         /\ IsResolved(incident_markers[args[p].id])
         => (result[p].kind = R_ErrMissing <=>
               \/ incident_markers[args[p].id].root_cause = <<>>
               \/ incident_markers[args[p].id].resolution = <<>>)

C7_Witness ==
    \E p \in Procs :
        /\ Done(p, "generate") /\ result[p].kind = R_ErrMissing
        /\ IsResolved(incident_markers[args[p].id])
        /\ incident_markers[args[p].id].root_cause = <<>>
        /\ incident_markers[args[p].id].resolution # <<>>

\* C8: generate answers "not found" when no incident has the id, "not yet
\* resolved" when the incident is open whatever its root_cause and
\* resolution, "missing root_cause or resolution" when it is resolved and
\* lacks one of them, and the summary otherwise.
ExpectedGenerateAnswer(id) ==
    IF id \notin DOMAIN incident_markers THEN R_ErrNotFound
    ELSE IF ~IsResolved(incident_markers[id]) THEN R_ErrNotResolved
    ELSE IF ~Truthy(incident_markers[id].root_cause) \/ ~Truthy(incident_markers[id].resolution)
         THEN R_ErrMissing
    ELSE R_Generated

C8_PreconditionOrder ==
    /\ Cardinality({R_ErrNotFound, R_ErrNotResolved, R_ErrMissing, R_Generated}) = 4
    /\ \A p \in Procs :
         Done(p, "generate") => result[p].kind = ExpectedGenerateAnswer(args[p].id)

C8_Witness ==
    \E p \in Procs :
        /\ Done(p, "generate") /\ result[p].kind = R_ErrNotResolved
        /\ ~Truthy(incident_markers[args[p].id].root_cause)

\* C9: documents and linkage metadata exist only for incidents that pass
\* generate's preconditions, a generate call is past its SELECT only on such
\* an incident, and a call refused by a precondition has called neither
\* store's insert.
PassesPreconditions(id) == ExpectedGenerateAnswer(id) = R_Generated

C9_RefusedGenerateWritesNothing ==
    /\ \A n \in Names(ops_knowledge) \cup Names(ops_learnings) : PassesPreconditions(n.id)
    /\ \A id \in DOMAIN incident_markers :
         ~PassesPreconditions(id) =>
            \A k \in {"knowledge_pack_generated", "generated_at", "artifacts"} :
                k \notin DOMAIN incident_markers[id].knowledge_pack.d
    /\ \A p \in Procs :
         args[p].op = "generate" /\ ~PassesPreconditions(args[p].id) =>
            /\ pc[p] = "done"
            /\ result[p].kind \in {R_ErrNotFound, R_ErrNotResolved, R_ErrMissing}
            /\ local[p].kins = <<>> /\ local[p].lins = <<>>
            /\ pending[p].kind = "none"

C9_Witness ==
    \E p \in Procs :
        /\ Done(p, "generate") /\ result[p].kind = R_ErrNotResolved
        /\ Truthy(incident_markers[args[p].id].root_cause)
        /\ Truthy(incident_markers[args[p].id].resolution)
        /\ ops_knowledge = NoDocs /\ ops_learnings = NoDocs
        /\ incident_markers[args[p].id].knowledge_pack = KpSqlNull

\* C10: a generate call that returns the summary has called the knowledge
\* store's insert once under incident_{id}_timeline when the incident has a
\* timeline_query and not at all otherwise, has called the learnings store's
\* insert once under incident_sig_{id}_{slug(title)}, both documents are in
\* their stores, and the incident's knowledge_pack.artifacts holds those
\* names (no validated query when there is no timeline_query).
C10_GenerateWritesOnce ==
    \A p \in Procs :
        Done(p, "generate") /\ result[p].kind = R_Generated =>
            LET id    == args[p].id
                row   == incident_markers[id]
                qname == IF row.timeline_query.present
                         THEN [kind |-> "incident_timeline", id |-> id, slug |-> <<>>]
                         ELSE NoName
                lname == [kind |-> "incident_sig", id |-> id, slug |-> Slugify(row.title)]
            IN  /\ local[p].kins = IF row.timeline_query.present THEN <<qname>> ELSE <<>>
                /\ local[p].lins = <<lname>>
                /\ row.timeline_query.present => qname \in Names(ops_knowledge)
                /\ \A n \in Names(ops_knowledge) : n.id = id => n = qname
                /\ lname \in Names(ops_learnings)
                /\ "artifacts" \in DOMAIN row.knowledge_pack.d
                /\ row.knowledge_pack.d["artifacts"].vq = qname
                /\ row.knowledge_pack.d["artifacts"].ln = lname

C10_Witness ==
    \E p \in Procs :
        /\ Done(p, "generate") /\ result[p].kind = R_Generated
        /\ ~incident_markers[args[p].id].timeline_query.present
        /\ local[p].kins = <<>> /\ Len(local[p].lins) = 1
        /\ incident_markers[args[p].id].knowledge_pack.d["artifacts"].vq = NoName

\* The outcomes of the attempts a call made at one step of generate
Attempts(p, step) ==
    {local[p].steps[i].outcome : i \in {j \in DOMAIN local[p].steps : local[p].steps[j].step = step}}
Has(lines, line) == \E i \in DOMAIN lines : lines[i] = line
\* The call is a generate that is over and got past the three preconditions
Attempted(p) == Done(p, "generate") /\ local[p].found

\* C11: a generate call that got past the preconditions and is over has
\* attempted every step, whatever any step did: the knowledge-store insert
\* when the incident has a timeline_query, the learnings-store insert, and
\* the update of knowledge_pack.
C11_FailureNeverAborts ==
    \A p \in Procs :
        Attempted(p) =>
            /\ local[p].row.timeline_query.present => Attempts(p, "query") # {}
            /\ Attempts(p, "learning") # {}
            /\ Attempts(p, "update") # {}

\* the knowledge store's insert raised OperationalError, and the call ended
\* with the connection error, neither the learnings insert nor the update
\* having been attempted
C11_Witness ==
    \E p \in Procs :
        /\ Attempted(p)
        /\ local[p].steps = <<Step("query", "OperationalError")>>
        /\ result[p].kind = R_ErrConn
        /\ local[p].lins = <<>>

\* C12: a generate call that attempted steps returns the summary, and for
\* each attempted step the summary holds that step's success line exactly
\* when the step ended without error and its failure line exactly when the
\* step failed.
StepLines ==
    [query    |-> [ok |-> A_QuerySaved, failed |-> A_QueryFailed],
     learning |-> [ok |-> A_SigSaved,   failed |-> A_SigFailed],
     update   |-> [ok |-> A_KpUpdated,  failed |-> A_KpFailed]]

C12_SummaryReportsEachStep ==
    \A p \in Procs :
        Attempted(p) =>
            /\ result[p].kind = R_Generated
            /\ \A step \in {"query", "learning", "update"} :
                  /\ Has(result[p].artifacts, StepLines[step].ok)
                        <=> "ok" \in Attempts(p, step)
                  /\ Has(result[p].artifacts, StepLines[step].failed)
                        <=> Attempts(p, step) \ {"ok"} # {}

\* the query was saved, then the learnings store raised OperationalError: the
\* caller is given the connection error and no line about the saved query
C12_Witness ==
    \E p \in Procs :
        /\ Attempted(p)
        /\ local[p].steps = <<Step("query", "ok"), Step("learning", "OperationalError")>>
        /\ QueryName(args[p].id) \in Names(ops_knowledge)
        /\ result[p].kind = R_ErrConn /\ result[p].artifacts = <<>>

\* C13: no step takes a key other than knowledge_pack_generated, generated_at
\* and artifacts out of an incident's knowledge_pack or changes the value
\* stored under it.
LinkageKeys == {"knowledge_pack_generated", "generated_at", "artifacts"}

C13_PackKeysKept ==
    [][\A id \in DOMAIN incident_markers :
          \A k \in DOMAIN incident_markers[id].knowledge_pack.d \ LinkageKeys :
              /\ id \in DOMAIN incident_markers'
              /\ k \in DOMAIN incident_markers'[id].knowledge_pack.d
              /\ incident_markers'[id].knowledge_pack.d[k] = incident_markers[id].knowledge_pack.d[k]]_vars

\* gotchas given to resolve are in the pack beside the linkage metadata that a
\* generate call has stored
C13_Witness ==
    \E p \in Procs :
        /\ Done(p, "generate") /\ result[p].kind = R_Generated
        /\ LET d == incident_markers[args[p].id].knowledge_pack.d
           IN  /\ LinkageKeys \subseteq DOMAIN d
               /\ "gotchas" \in DOMAIN d
               /\ d["gotchas"] = JList(<<"needs 512MB">>)

\* C14: each store holds at most one document per incident, under the name
\* derived from the incident's id (and title); a document once written is
\* never changed or removed; and every generate call on an incident calls
\* the stores with those same names.
DocsOf(store, id) == {i \in DOMAIN store : store[i].name.id = id}

C14_OneDocumentPerName ==
    /\ \A id \in Ids :
         /\ Cardinality(DocsOf(ops_knowledge, id)) <= 1
         /\ Cardinality(DocsOf(ops_learnings, id)) <= 1
    /\ \A i \in DOMAIN ops_knowledge :
         ops_knowledge[i].name =
            [kind |-> "incident_timeline", id |-> ops_knowledge[i].name.id, slug |-> <<>>]
    /\ \A i \in DOMAIN ops_learnings :
         LET id == ops_learnings[i].name.id
         IN  /\ id \in DOMAIN incident_markers
             /\ ops_learnings[i].name =
                   [kind |-> "incident_sig", id |-> id,
                    slug |-> Slugify(incident_markers[id].title)]
    /\ \A p \in Procs :
         args[p].op = "generate" =>
            /\ \A i \in DOMAIN local[p].kins :
                  local[p].kins[i] =
                     [kind |-> "incident_timeline", id |-> args[p].id, slug |-> <<>>]
            /\ \A i \in DOMAIN local[p].lins :
                  local[p].lins[i] =
                     [kind |-> "incident_sig", id |-> args[p].id,
                      slug |-> Slugify(incident_markers[args[p].id].title)]

C14_WritesKept ==
    /\ \A i \in DOMAIN ops_knowledge :
         i \in DOMAIN ops_knowledge' /\ ops_knowledge'[i] = ops_knowledge[i]
    /\ \A i \in DOMAIN ops_learnings :
         i \in DOMAIN ops_learnings' /\ ops_learnings'[i] = ops_learnings[i]

C14_GenerateIdempotent == []C14_OneDocumentPerName /\ [][C14_WritesKept]_vars

\* a generate call on an incident that an earlier generate call had already
\* linked has called both inserts again, and each store holds one document
C14_Witness ==
    \E p \in Procs :
        /\ Done(p, "generate") /\ result[p].kind = R_Generated
        /\ "knowledge_pack_generated" \in DOMAIN local[p].row.knowledge_pack.d
        /\ local[p].steps = <<Step("query", "ok"), Step("learning", "ok"), Step("update", "ok")>>
        /\ Len(ops_knowledge) = 1 /\ Len(ops_learnings) = 1

\* needle occurs in s as a substring, letter case ignored (never in a NULL)
ContainsNoCase(s, needle) ==
    /\ s # None
    /\ \E i \in 0..(Len(s) - Len(needle)) :
          SubSeq(Lower(s), i + 1, i + Len(needle)) = Lower(needle)
Elems(xs) == {xs[i] : i \in DOMAIN xs}
\* The incident matches at least one criterion that was given
MatchesCriteria(row, in) ==
    \/ /\ Truthy(in.services)
       /\ Elems(row.affected_services) \cap Elems(ParseServices(in.services)) # {}
    \/ /\ Truthy(in.keywords)
       /\ ContainsNoCase(row.title, in.keywords) \/ ContainsNoCase(row.root_cause, in.keywords)
\* The ids of the returned rows, in the order returned
ReturnedIds(p) == [k \in DOMAIN result[p].rows |-> result[p].rows[k].id]

\* C15: a search that was given a criterion and is over has returned the
\* first min(limit, 50) of the incidents that match a given criterion
\* (a shared service name, or keywords as a case-insensitive substring of
\* title or root_cause), latest started_at first, and nothing else.
C15_SearchReturnsMatches ==
    \A p \in Procs :
        Done(p, "search") /\ result[p].kind \in {R_Similar, R_NoMatches} =>
            LET in      == args[p].in
                matches == {i \in DOMAIN incident_markers :
                               MatchesCriteria(incident_markers[i], in)}
                cap     == IF in.limit < 50 THEN in.limit ELSE 50
                n       == IF Cardinality(matches) < cap THEN Cardinality(matches) ELSE cap
                ids     == ReturnedIds(p)
                at(i)   == incident_markers[i].started_at
            IN  /\ Len(ids) = n
                /\ Elems(ids) \subseteq matches
                /\ \A j, k \in DOMAIN ids : j < k => ids[j] # ids[k] /\ at(ids[j]) >= at(ids[k])
                /\ \A m \in matches \ Elems(ids) : \A k \in DOMAIN ids : at(m) <= at(ids[k])
                /\ (result[p].kind = R_NoMatches) <=> (n = 0)

\* a search for the keywords o_m has returned an incident that holds o_m
\* neither in its title nor in its root_cause
C15_Witness ==
    \E p \in Procs :
        /\ Done(p, "search") /\ result[p].kind = R_Similar
        /\ args[p].in.keywords = <<"o","_","m">>
        /\ \E k \in DOMAIN result[p].rows :
              ~MatchesCriteria(incident_markers[result[p].rows[k].id], args[p].in)

\* The answers that refuse an input
Rejections == {R_ErrNoCriteria, R_ErrJson, R_ErrSeverity, R_ErrServices}
NoCriteria(in) == in.services \in {None, <<>>} /\ in.keywords \in {None, <<>>}

\* Every call with an input of the kinds below is answered by the matching
\* error, whatever the warehouse does, and a search given a criterion is not;
\* unparseable is the set of knowledge_pack texts counted as not parseable
RejectedInputsAnswered(unparseable) ==
    \A p \in Procs :
        pc[p] = "done" =>
            /\ args[p].op = "search" /\ NoCriteria(args[p].in) =>
                  result[p].kind = R_ErrNoCriteria
            /\ args[p].op = "search" /\ ~NoCriteria(args[p].in) =>
                  result[p].kind \in {R_NoMatches, R_Similar, R_ErrConn, R_ErrDb}
            /\ args[p].op = "resolve" /\ args[p].in.knowledge_pack \in unparseable =>
                  result[p].kind = R_ErrJson
            /\ args[p].op = "create"
                  /\ args[p].in.severity \notin {"critical", "warning", "info"} =>
                  result[p].kind = R_ErrSeverity
            /\ args[p].op = "create"
                  /\ args[p].in.severity \in {"critical", "warning", "info"}
                  /\ IsBlankList(args[p].in.affected_services) =>
                  result[p].kind = R_ErrServices
            /\ result[p].kind \in Rejections => pending[p] = NoPending

\* A step that ends a call with a refusal is the call's only step and leaves
\* the table, its id sequence and both stores as they were
RejectionChangesNothing ==
    \A p \in Procs :
        pc[p] # "done" /\ pc'[p] = "done" /\ result'[p].kind \in Rejections =>
            /\ pc[p] = "idle"
            /\ UNCHANGED <<incident_markers, nextId, ops_knowledge, ops_learnings>>
            /\ args'[p].op = "resolve" /\ args'[p].id \in DOMAIN incident_markers =>
                  incident_markers'[args'[p].id].resolved_at
                     = incident_markers[args'[p].id].resolved_at

\* C16 as stated: search with no criterion, resolve with a knowledge_pack
\* text that json cannot parse (the empty text included), create with an
\* invalid severity or no service name are each answered by their error.
C16_UnparseablePackRefused == RejectedInputsAnswered({JsonBroken, JsonEmpty})

\* C16 as amended: search with no criterion, resolve with a non-empty
\* knowledge_pack text that json cannot parse, create with an invalid
\* severity or no service name are each answered by their error without a
\* statement being sent, and the table and both stores stay as they were; a
\* search given one criterion is not refused.
C16_RejectedInputChangesNothing ==
    []RejectedInputsAnswered({JsonBroken}) /\ [][RejectionChangesNothing]_vars

\* a resolve with an unparseable knowledge_pack was refused and its incident
\* is still open
C16_Witness ==
    \E p \in Procs :
        /\ Done(p, "resolve") /\ result[p].kind = R_ErrJson
        /\ args[p].in.knowledge_pack = JsonBroken
        /\ args[p].id \in DOMAIN incident_markers
        /\ incident_markers[args[p].id].resolved_at = NullTime

\* The event lies in the window and, when a filter is given, its entity holds
\* the filter as a substring, letter case ignored
InWindow(e, in) ==
    /\ in.start_time <= e.occurred_at /\ e.occurred_at <= in.end_time
    /\ Truthy(in.entity_filter) => ContainsNoCase(e.entity, in.entity_filter)

\* C17: a reconstruct call that is over has returned the first
\* min(limit, 500) of the events of the window whose entity holds the filter
\* as a case-insensitive substring (all events of the window without a
\* filter), earliest occurred_at first, and never asks for more than 500.
C17_ReconstructReturnsWindow ==
    \A p \in Procs :
        Done(p, "reconstruct") /\ result[p].kind \in {R_Timeline, R_NoEvents} =>
            LET in      == args[p].in
                matches == {i \in DOMAIN Events : InWindow(Events[i], in)}
                cap     == IF in.limit < 500 THEN in.limit ELSE 500
                n       == IF Cardinality(matches) < cap THEN Cardinality(matches) ELSE cap
                ids     == ReturnedIds(p)
                at(i)   == Events[i].occurred_at
            IN  /\ Len(ids) = n
                /\ local[p].lim = cap /\ local[p].lim <= 500
                /\ Elems(ids) \subseteq matches
                /\ \A j, k \in DOMAIN ids : j < k => ids[j] # ids[k] /\ at(ids[j]) <= at(ids[k])
                /\ \A m \in matches \ Elems(ids) : \A k \in DOMAIN ids : at(m) >= at(ids[k])
                /\ (result[p].kind = R_NoEvents) <=> (n = 0)

\* a reconstruct with the filter w_b has returned an event whose entity does
\* not hold w_b
C17_Witness ==
    \E p \in Procs :
        /\ Done(p, "reconstruct") /\ result[p].kind = R_Timeline
        /\ args[p].in.entity_filter = <<"w","_","b">>
        /\ \E k \in DOMAIN result[p].rows :
              ~InWindow(Events[result[p].rows[k].id], args[p].in)

\* The returned strings that are error values: those that begin with "Error:"
IsError(kind) == kind \notin
    {R_None, R_Created, R_Resolved, R_Generated, R_NoEvents, R_Timeline,
     "No matching incidents found.", R_Similar, R_Pack, R_Raised}

\* C18: with the warehouse answering, a reconstruct whose query selects no
\* event returns "No events found" and a search (given a criterion) whose
\* query selects no incident returns "No matching incidents found."; neither
\* is an error value, reconstruct returns no error value at all, and search
\* returns one only when it was given no criterion.
C18_EmptyIsSuccess ==
    \A p \in Procs :
        /\ Done(p, "reconstruct") =>
              /\ ~IsError(result[p].kind)
              /\ {i \in DOMAIN Events : TimelineWhere(Events[i], args[p].in)} = {} =>
                    result[p].kind = "No events found" /\ result[p].rows = <<>>
        /\ Done(p, "search") =>
              /\ IsError(result[p].kind) <=> NoCriteria(args[p].in)
              /\ ~NoCriteria(args[p].in)
                    /\ {i \in DOMAIN incident_markers :
                          SearchWhere(incident_markers[i], args[p].in)} = {} =>
                    result[p].kind = R_NoMatches /\ result[p].rows = <<>>

\* a search by service on a table holding an incident of other services has
\* returned the no-matches result
C18_Witness ==
    \E p \in Procs :
        /\ Done(p, "search") /\ result[p].kind = R_NoMatches
        /\ Truthy(args[p].in.services)
        /\ DOMAIN incident_markers # {}

\* A generate call has stored its linkage metadata on the incident
Linked(row) == LinkageKeys \subseteq DOMAIN row.knowledge_pack.d

\* C19: a retrieve that is over returned the not-found error exactly when no
\* incident has the id; for a resolved incident it shows the notice "No
\* knowledge pack generated yet" exactly when no generate call has stored
\* linkage metadata on it, and otherwise the names of the linked artifacts.
C19_RetrieveThreeCases ==
    \A p \in Procs :
        Done(p, "retrieve") =>
            LET id == args[p].id
            IN  /\ (result[p].kind = R_ErrNotFound) <=> (id \notin DOMAIN incident_markers)
                /\ id \in DOMAIN incident_markers /\ IsResolved(incident_markers[id]) =>
                      LET row == incident_markers[id]
                      IN  /\ result[p].kind = R_Pack
                          /\ result[p].pack.status = "Resolved"
                          /\ result[p].pack.notice <=> ~Linked(row)
                          /\ Linked(row) =>
                                /\ result[p].pack.learning = row.knowledge_pack.d["artifacts"].ln
                                /\ result[p].pack.query = row.knowledge_pack.d["artifacts"].vq
                                /\ result[p].pack.learning # NoName

\* a retrieve of an incident that was resolved with gotchas, and for which no
\* generate has run, shows neither the notice nor a linked artifact
C19_Witness ==
    \E p \in Procs :
        /\ Done(p, "retrieve") /\ result[p].kind = R_Pack
        /\ result[p].pack.status = "Resolved"
        /\ ~Linked(incident_markers[args[p].id])
        /\ ~result[p].pack.notice
        /\ result[p].pack.gotchas # <<>>
        /\ result[p].pack.learning = NoName
        /\ ops_learnings = NoDocs

\* needle occurs in s as a substring
Occurs(s, needle) ==
    \E i \in 0..(Len(s) - Len(needle)) : SubSeq(s, i + 1, i + Len(needle)) = needle
\* The incident was stored by create: it has its timeline query
Created(row) == row.timeline_query.present

\* C20: with every statement and insert succeeding, for an incident that
\* create stored: a resolve of it while open, given a non-empty root_cause
\* and resolution (and a parseable pack), succeeds; a generate after that
\* reports the saved query, the saved signature, the runbook and the updated
\* metadata, and its runbook names every affected service; a retrieve after
\* that shows Resolved and both linked artifact names.
C20_EndToEnd ==
    \A p \in Procs :
        /\ Done(p, "create") /\ result[p].kind = R_Created =>
              /\ result[p].id \in DOMAIN incident_markers
              /\ Created(incident_markers[result[p].id])
        /\ Done(p, "resolve") /\ MadeOnOpen(p) /\ Created(local[p].before)
              /\ Truthy(args[p].in.root_cause) /\ Truthy(args[p].in.resolution)
              /\ args[p].in.knowledge_pack # JsonBroken =>
              result[p].kind = R_Resolved
        /\ Done(p, "generate") /\ args[p].id \in DOMAIN incident_markers =>
              LET row == incident_markers[args[p].id]
              IN  Created(row) /\ IsResolved(row)
                    /\ Truthy(row.root_cause) /\ Truthy(row.resolution) =>
                    /\ result[p].kind = R_Generated
                    /\ result[p].artifacts =
                          <<"Validated query saved", "Incident signature saved",
                            "Runbook suggestion generated (see below)",
                            "Incident knowledge_pack metadata updated">>
                    /\ \A i \in DOMAIN row.affected_services :
                          Occurs(result[p].runbook.services, row.affected_services[i])
                    /\ Linked(row)
        /\ Done(p, "retrieve") /\ args[p].id \in DOMAIN incident_markers =>
              LET row == incident_markers[args[p].id]
              IN  Created(row) /\ Linked(row) =>
                    /\ result[p].pack.status = "Resolved"
                    /\ result[p].pack.query =
                          [kind |-> "incident_timeline", id |-> args[p].id, slug |-> <<>>]
                    /\ result[p].pack.learning =
                          [kind |-> "incident_sig", id |-> args[p].id,
                           slug |-> Slugify(row.title)]
                    /\ result[p].pack.query \in Names(ops_knowledge)
                    /\ result[p].pack.learning \in Names(ops_learnings)

\* a retrieve shows Resolved and both names for an incident of two services
\* that was created, resolved and generated
C20_Witness ==
    \E p \in Procs :
        /\ Done(p, "retrieve") /\ result[p].kind = R_Pack
        /\ Created(incident_markers[args[p].id]) /\ Linked(incident_markers[args[p].id])
        /\ Len(incident_markers[args[p].id].affected_services) = 2
        /\ result[p].pack.status = "Resolved"
        /\ result[p].pack.query # NoName /\ result[p].pack.learning # NoName

\* ------------------------------------------- the stored timeline query

\* C21: the timeline_query that create stored selects one fixed window: as
\* the clock moves on, a replay of the stored text covers the same window
\* as a replay before.
C21_ReplayWindowFixed ==
    [][\A id \in DOMAIN incident_markers :
          Created(incident_markers[id]) =>
              ReplayWindow(incident_markers[id].timeline_query, now')
                  = ReplayWindow(incident_markers[id].timeline_query, now)]_vars

\* an incident stored by create, with the clock later than at system start:
\* its text now selects a window whose upper bound is the current instant + 15
C21_Witness ==
    \E id \in DOMAIN incident_markers :
        /\ Created(incident_markers[id])
        /\ now > 0
        /\ incident_markers[id].timeline_query = TimelineSql(incident_markers[id].started_at)
        /\ ReplayWindow(incident_markers[id].timeline_query, now).upper = now + WindowMinutes
        /\ ReplayWindow(incident_markers[id].timeline_query, now).lower
               = incident_markers[id].started_at - WindowMinutes

\* ------------------------------------------------------ the reading tools

ReadingTools == {"reconstruct", "search", "retrieve"}

\* C22: a call of reconstruct, search or retrieve, whatever it returns (its
\* statement may fail), leaves every incident row, the id sequence and both
\* document stores as they were.
C22_ReadsChangeNothing ==
    [][\A p \in Procs :
          pc[p] = "idle" /\ args'[p].op \in ReadingTools =>
              /\ pc'[p] = "done"
              /\ incident_markers' = incident_markers
              /\ nextId' = nextId
              /\ ops_knowledge' = ops_knowledge
              /\ ops_learnings' = ops_learnings]_vars

\* a retrieve that rendered the pack of a generated incident, with documents
\* in both stores
C22_Witness ==
    \E p \in Procs :
        /\ Done(p, "retrieve") /\ result[p].kind = R_Pack
        /\ result[p].pack.learning # NoName
        /\ ops_knowledge # NoDocs /\ ops_learnings # NoDocs

\* ------------------------------------------- the fields fixed at creation

\* The columns create fills and no later statement names in a SET clause
FixedAtCreation(row) ==
    <<row.title, row.severity, row.started_at, row.affected_services, row.timeline_query>>

\* C23: the timeline_query of an incident stored by create is the query text
\* built from its started_at and from nothing else, and no step of any call
\* removes an incident, renumbers it or changes its title, severity,
\* started_at, affected_services or timeline_query.
C23_CreationFieldsFixed ==
    /\ [](\A id \in DOMAIN incident_markers :
            LET row == incident_markers[id]
            IN  Created(row) =>
                  row.timeline_query =
                      [present |-> TRUE, lower_anchor |-> row.started_at, lower_minus |-> 15,
                       upper_anchor |-> "NOW()", upper_plus |-> 15])
    /\ [][\A id \in DOMAIN incident_markers :
            /\ id \in DOMAIN incident_markers'
            /\ FixedAtCreation(incident_markers'[id]) = FixedAtCreation(incident_markers[id])]_vars

\* an incident stored by create with started_at = 1 that has since been
\* resolved and given its generated pack
C23_Witness ==
    \E id \in DOMAIN incident_markers :
        /\ Created(incident_markers[id])
        /\ incident_markers[id].started_at = 1
        /\ IsResolved(incident_markers[id])
        /\ Linked(incident_markers[id])

\* ------------------------------------------------------ failures of stores

\* A step of the call's tool failed: a store insert or the UPDATE raised
SomeStepFailed(p) == \E i \in DOMAIN local[p].steps : local[p].steps[i].outcome # "ok"

\* C24: whatever a statement or a store insert does, a call that is over has
\* returned a string (no exception left the tool), and a call in which a
\* step failed has returned an error value, not a success.
C24_FailuresReturnError ==
    \A p \in Procs :
        pc[p] = "done" =>
            /\ result[p].kind # R_Raised
            /\ SomeStepFailed(p) => IsError(result[p].kind)

\* the knowledge store's insert raised an exception that no except clause of
\* generate names: it left the tool, the caller has no returned string
C24_Witness ==
    \E p \in Procs :
        /\ Done(p, "generate")
        /\ local[p].steps = <<Step("query", "RuntimeError")>>
        /\ result[p].kind = R_Raised

\* ------------------------------------------------ the rendered timeline

\* The event a rendered line was made from
EventOf(line) == Events[line.id]

\* The lines of a returned timeline come in ascending occurred_at, the order
\* of the query's ORDER BY, one line per returned event
LinesInQueryOrder(rows) ==
    \A j, k \in DOMAIN rows :
        j < k => /\ rows[j].id # rows[k].id
                 /\ EventOf(rows[j]).occurred_at <= EventOf(rows[k]).occurred_at

\* C25 (as stated): every line of a rendered timeline carries one of the
\* three tags D, C, !, fixed by the event's source: D for deploy, C for
\* container-runtime, ! for incident; the lines are in the query's order.
C25_TagOneOfThree ==
    \A p \in Procs :
        Done(p, "reconstruct") /\ result[p].kind = R_Timeline =>
            /\ \A k \in DOMAIN result[p].rows :
                  LET line == result[p].rows[k]
                  IN  /\ line.mark \in {"D", "C", "!"}
                      /\ EventOf(line).source = "deploy" => line.mark = "D"
                      /\ EventOf(line).source = "container-runtime" => line.mark = "C"
                      /\ EventOf(line).source = "incident" => line.mark = "!"
            /\ LinesInQueryOrder(result[p].rows)

\* C25: every line of a rendered timeline names its event's source and
\* carries one tag fixed by that source: D for deploy, C for docker, ! for
\* incident and ? for every other source; the lines are in the query's order.
C25_TagBySource ==
    \A p \in Procs :
        Done(p, "reconstruct") /\ result[p].kind = R_Timeline =>
            /\ \A k \in DOMAIN result[p].rows :
                  LET line == result[p].rows[k]
                  IN  /\ line.status = EventOf(line).source
                      /\ line.mark \in {"D", "C", "!", "?"}
                      /\ line.mark = "D" <=> EventOf(line).source = "deploy"
                      /\ line.mark = "C" <=> EventOf(line).source = "docker"
                      /\ line.mark = "!" <=> EventOf(line).source = "incident"
            /\ LinesInQueryOrder(result[p].rows)

\* a rendered timeline whose line for the container-runtime event is tagged ?
C25_Witness ==
    \E p \in Procs :
        /\ Done(p, "reconstruct") /\ result[p].kind = R_Timeline
        /\ \E k \in DOMAIN result[p].rows :
              /\ result[p].rows[k].status = "container-runtime"
              /\ result[p].rows[k].mark = "?"

\* -------------------------------------------------------- the two helpers

\* C26: _compute_duration returns nothing when a timestamp is missing;
\* otherwise a whole number of minutes m >= 0 that is the floor of the
\* elapsed seconds / 60 when resolved_at >= started_at (60 m <= elapsed <
\* 60 (m + 1)) and 0 when resolved_at < started_at; the duration_minutes of
\* every incident signature in the learnings store is never negative.
C26_DurationFloorClamped ==
    /\ \A p \in Procs :
          Done(p, "compute_duration") =>
              LET s == args[p].in.started_at
                  r == args[p].in.resolved_at
                  m == result[p].value.minutes
              IN  /\ result[p].value.present <=> (s # NullTime /\ r # NullTime)
                  /\ result[p].value.present =>
                        /\ m \in Nat
                        /\ r >= s => 60 * m <= r - s /\ r - s < 60 * (m + 1)
                        /\ r < s => m = 0
    /\ \A i \in DOMAIN ops_learnings :
          LET sig == ops_learnings[i].doc
          IN  /\ sig.duration_minutes.present /\ sig.duration_minutes.minutes >= 0
              /\ sig.resolved_at >= sig.started_at =>
                    sig.duration_minutes.minutes = sig.resolved_at - sig.started_at

\* the helper was given a resolved_at 119 seconds before started_at and
\* returned 0, and the learnings store holds the signature of an incident
\* resolved before its stated start, with duration_minutes 0
C26_Witness ==
    /\ \E p \in Procs :
          /\ Done(p, "compute_duration")
          /\ args[p].in.resolved_at = 0 /\ args[p].in.started_at = 119
          /\ result[p].value = [present |-> TRUE, minutes |-> 0]
    /\ \E i \in DOMAIN ops_learnings :
          /\ ops_learnings[i].doc.resolved_at < ops_learnings[i].doc.started_at
          /\ ops_learnings[i].doc.duration_minutes.minutes = 0

\* The labels of the table whose pattern occurs in text
LabelsFound(text) ==
    {SymptomPatterns[k].label : k \in {j \in DOMAIN SymptomPatterns :
                                           Occurs(text, SymptomPatterns[j].pattern)}}

\* Where a label is first seen: its place in the table when its pattern was
\* found, else behind the table at its first place among the carried symptoms
FirstSeen(label, text, prior) ==
    IF label \in LabelsFound(text)
    THEN CHOOSE k \in DOMAIN SymptomPatterns : SymptomPatterns[k].label = label
    ELSE Len(SymptomPatterns)
           + (CHOOSE i \in DOMAIN prior :
                 prior[i] = label /\ \A j \in 1..(i - 1) : prior[j] # label)

\* out is the list without duplicates of the labels found in text and of the
\* carried symptoms, each at its first-seen place
SymptomsOf(out, text, prior) ==
    /\ \A i, j \in DOMAIN out : i # j => out[i] # out[j]
    /\ Elems(out) = LabelsFound(text) \cup Elems(prior)
    /\ \A i, j \in DOMAIN out :
          i < j => FirstSeen(out[i], text, prior) < FirstSeen(out[j], text, prior)

\* symptoms of the prior pack, when it is a dict that has some
PriorSymptoms(kp) ==
    IF kp.kind = "dict" /\ "symptoms" \in DOMAIN kp.d THEN kp.d["symptoms"].xs ELSE <<>>

\* C27 (as stated): _extract_symptoms returns, without duplicates and each at
\* its first-seen place (table order, then the carried symptoms), exactly the
\* labels whose pattern is a substring of the lowercased title + root_cause
\* and the labels of prior_pack.symptoms.
C27_SymptomsOfConcatenation ==
    \A p \in Procs :
        Done(p, "extract_symptoms") =>
            SymptomsOf(result[p].value,
                       Lower(args[p].in.title \o args[p].in.root_cause),
                       PriorSymptoms(args[p].kp))

\* C27: _extract_symptoms returns, without duplicates and each at its
\* first-seen place (table order, then the carried symptoms), exactly the
\* labels whose pattern is a substring of the lowercased text "title, one
\* space, root_cause" and the labels of prior_pack.symptoms.
C27_SymptomsOfJoinedText ==
    \A p \in Procs :
        Done(p, "extract_symptoms") =>
            SymptomsOf(result[p].value,
                       Lower(args[p].in.title \o <<" ">> \o args[p].in.root_cause),
                       PriorSymptoms(args[p].kp))

\* "Ghost OOM crash" / "memory limit exceeded" with a prior pack that carries
\* a table label and a repeated custom symptom: three table labels in table
\* order, then the two carried symptoms not yet seen
C27_Witness ==
    \E p \in Procs :
        /\ Done(p, "extract_symptoms")
        /\ result[p].value =
              <<"Out of memory / OOM kill", "Service crash / restart loop",
                "Memory pressure", "Custom symptom", "CPU saturation">>
        /\ Len(PriorSymptoms(args[p].kp)) = 4

\* ------------------------------------------------------- linkage integrity

\* The names an incident's knowledge_pack.artifacts holds
ArtifactsOf(row) ==
    IF row.knowledge_pack.kind = "dict" /\ "artifacts" \in DOMAIN row.knowledge_pack.d
    THEN row.knowledge_pack.d["artifacts"]
    ELSE [vq |-> NoName, ln |-> NoName]

\* C28: in every reachable state, a validated query named by an incident's
\* knowledge_pack.artifacts is the name of a document in the knowledge
\* store, and a learning named there is the name of a document in the
\* learnings store.
C28_LinkageIntegrity ==
    \A id \in DOMAIN incident_markers :
        LET a == ArtifactsOf(incident_markers[id])
        IN  /\ a.vq # NoName => a.vq \in Names(ops_knowledge)
            /\ a.ln # NoName => a.ln \in Names(ops_learnings)

\* a generate whose knowledge-store insert raised ValueError has finished:
\* its summary says the query save failed, the incident's artifacts name the
\* validated query, and the knowledge store holds no document of that name
C28_Witness ==
    \E p \in Procs :
        /\ Done(p, "generate") /\ result[p].kind = R_Generated
        /\ Has(result[p].artifacts, A_QueryFailed)
        /\ Has(result[p].artifacts, A_KpUpdated)
        /\ ArtifactsOf(incident_markers[args[p].id]).vq = QueryName(args[p].id)
        /\ QueryName(args[p].id) \notin Names(ops_knowledge)

\* ------------------------------------------------- the mark of a search line

\* The stored pack is a non-empty document: what retrieve renders instead of
\* the notice "No knowledge pack generated yet"
PackNonEmpty(row) ==
    row.knowledge_pack.kind = "dict" /\ DOMAIN row.knowledge_pack.d # {}

\* C29: every line of a search result is marked + exactly when the stored
\* knowledge_pack of its incident is non-empty (retrieve would not show the
\* notice) and - otherwise; an incident resolved without extras and never
\* generated is marked -.
C29_MarkMeansPack ==
    \A p \in Procs :
        Done(p, "search") /\ result[p].kind = R_Similar =>
            \A k \in DOMAIN result[p].rows :
                LET line == result[p].rows[k]
                    row  == incident_markers[line.id]
                IN  /\ line.mark = "+" <=> PackNonEmpty(row)
                    /\ line.mark = "-" <=> ~PackNonEmpty(row)

\* a search has returned, marked +, an incident that was resolved without
\* extras and never generated: its stored pack is the empty document
C29_Witness ==
    \E p \in Procs :
        /\ Done(p, "search") /\ result[p].kind = R_Similar
        /\ \E k \in DOMAIN result[p].rows :
              /\ result[p].rows[k].mark = "+"
              /\ IsResolved(incident_markers[result[p].rows[k].id])
              /\ incident_markers[result[p].rows[k].id].knowledge_pack = KpDict(EmptyDict)
              /\ RenderPack(incident_markers[result[p].rows[k].id]).notice

\* ------------------------------------------------- concurrent generate calls

\* The generate calls that have returned their summary
Generated == {p \in Procs : Done(p, "generate") /\ result[p].kind = R_Generated}

\* C30: whenever generate calls on a resolved incident have returned their
\* summary, however their reads and writes interleaved, the incident's
\* knowledge_pack holds every non-linkage key of the pack the call read (the
\* pack stored at resolution) with its value, knowledge_pack_generated =
\* true, and artifacts naming the incident's two documents, which are in
\* the stores; and every document in a store belongs to a resolved incident.
C30_ConcurrentGenerateConverges ==
    /\ \A p \in Generated :
          LET id   == args[p].id
              row  == incident_markers[id]
              read == local[p].row.knowledge_pack
              d    == row.knowledge_pack.d
          IN  /\ row.knowledge_pack.kind = "dict"
              /\ read.kind = "dict" =>
                    \A k \in DOMAIN read.d \ LinkageKeys :
                        k \in DOMAIN d /\ d[k] = read.d[k]
              /\ LinkageKeys \subseteq DOMAIN d
              /\ d["knowledge_pack_generated"].t = "bool" /\ d["knowledge_pack_generated"].b
              /\ d["artifacts"].vq = [kind |-> "incident_timeline", id |-> id, slug |-> <<>>]
              /\ d["artifacts"].ln =
                    [kind |-> "incident_sig", id |-> id, slug |-> Slugify(row.title)]
              /\ d["artifacts"].vq \in Names(ops_knowledge)
              /\ d["artifacts"].ln \in Names(ops_learnings)
              /\ Cardinality(DocsOf(ops_knowledge, id)) = 1
              /\ Cardinality(DocsOf(ops_learnings, id)) = 1
    /\ \A n \in Names(ops_knowledge) \cup Names(ops_learnings) :
          /\ n.id \in DOMAIN incident_markers
          /\ incident_markers[n.id].resolved_at # NullTime

\* two generate calls on the incident resolved with gotchas have both
\* returned their summary; they read the pack before either wrote, computed
\* packs with different generated_at, and the gotchas are still stored
C30_Witness ==
    /\ Generated = {"p1", "p2"}
    /\ args["p1"].id = args["p2"].id
    /\ local["p1"].kp # local["p2"].kp
    /\ ~("artifacts" \in DOMAIN local["p1"].row.knowledge_pack.d)
    /\ ~("artifacts" \in DOMAIN local["p2"].row.knowledge_pack.d)
    /\ "gotchas" \in DOMAIN incident_markers[args["p1"].id].knowledge_pack.d

====
